---------------------------- MODULE Spec2Model ----------------------------
(***************************************************************************)
(* RadioWSServer: room-scoped WebSocket broadcast relay with stateless     *)
(* HMAC membership tokens.                                                 *)
(*                                                                         *)
(* The model follows the current server (src/src/server.js from line 312), *)
(* the token codec (src/src/auth/index.js), the room handlers              *)
(* (BaseRoomHandler, RadioHandler, ChatHandler) and the HTTP push route.   *)
(*                                                                         *)
(* Strings are modelled as sequences of symbols, a symbol being a TLA+     *)
(* string; the symbol "." is the token separator.  Time is counted in      *)
(* ticks of half an hour, so the codec's fixed lifetime of one hour is two *)
(* ticks.  A value that JavaScript code may leave null is modelled as a    *)
(* set of at most one element: {} is null.                                 *)
(*                                                                         *)
(* Every handler of the server is cut at its awaits, one action per piece. *)
(* Rooms "radio" and "chat" have the handlers of the repository; "lobby"   *)
(* stands for a room served by BaseRoomHandler or by a discovered subclass *)
(* of it, whose hooks may wait and whose onJoin may refuse.  Spec is the   *)
(* server with its secret and clock fixed; SpecToken is the token codec    *)
(* alone, with the clock advancing and the secret replaced by restarts.    *)
(***************************************************************************)
EXTENDS Integers, Sequences, FiniteSets, TLC

VARIABLES
    secret,      \* AUTH_SECRET of the running process
    now,         \* Date.now(), in ticks
    tok,         \* codec harness: the token string a client holds
    tokReq,      \* codec harness: the /auth/token request that produced tok ({} if none)
    tokKind,     \* codec harness: how tok was obtained
    ver,         \* codec harness: the verifyAuthToken call just made, room and result
    accepted,    \* codec harness: the secrets under which tok has verified
    rooms,       \* the rooms Map: room name -> its Set object (0: no entry)
    members,     \* contents of each Set object; a Set is named by the connection whose getRoom call created it
    pc,          \* where each connection's handler stands
    readyState,  \* socket.readyState
    closeCode,   \* code given to socket.close (or sent by the peer); 0: none
    closeCond,   \* the condition that closed the socket
    roomOf,      \* roomName extracted by the connection handler
    authPayload, \* verifyAuthToken's result for the connection ({}: null)
    currentRoom, \* socket.currentRoom (NoRoom: null)
    localRoom,   \* the Set object held in the local variable room of joinRoom / leaveRoom while it runs (0: none)
    welcome,     \* the message getWelcomeMessage built, while it is awaited
    inbox,       \* messages written to each socket, in order
    inflight,    \* per connection, the message-handler invocations suspended at an await
    frames,      \* number of inbound frames the clients have yet to send
    chatUsername,   \* socket.chatUsername ("": unset)
    chatUsers,      \* ChatHandler.users (its key set)
    chatCount,      \* ChatHandler.messageCount
    contentHistory, \* RadioHandler.contentHistory
    onLeaveCalls,   \* per connection, the calls of its room handler's onLeave so far
    push,        \* the HTTP push in progress or answered
    pushes,      \* number of HTTP pushes so far
    health,      \* the GET /health request in progress or answered
    down,        \* shutdown() has run
    isAlive,     \* socket.isAlive
    lastActivity,     \* the connection handler's lastActivity, in ticks
    idleTimer,        \* the connection's idleCheck timer is pending
    IDLE_TIMEOUT_MS,  \* the idle timeout the process was started with, in ticks (0: disabled)
    beats,       \* number of heartbeat ticks so far
    beatRooms,   \* the rooms whose handler's onHeartbeat the latest heartbeat tick called
    answered,    \* per connection, its peer has sent a pong since the latest heartbeat tick that probed it
    silentTicks, \* per connection, the heartbeat ticks it has been through since it was accepted or its last pong was taken
    exited       \* the process has terminated: an unhandled promise rejection, or process.exit after shutdown()

tokenVars == <<secret, now, tok, tokReq, tokKind, ver, accepted>>

harnessVars == <<tok, tokReq, tokKind, ver, accepted>>

registryVars == <<rooms, members>>

socketVars == <<pc, readyState, closeCode, closeCond, roomOf, authPayload,
                currentRoom, localRoom, welcome>>

timerVars == <<isAlive, lastActivity, idleTimer, IDLE_TIMEOUT_MS, beats, beatRooms,
               silentTicks, answered>>

handlerVars == <<chatUsername, chatUsers, chatCount, contentHistory,
                 onLeaveCalls>>

\* what the process holds in memory, and its sockets
memoryVars == <<rooms, members, pc, readyState, closeCode, closeCond, roomOf,
                authPayload, currentRoom, localRoom, welcome, inbox, inflight,
                frames, chatUsername, chatUsers, chatCount, contentHistory,
                onLeaveCalls, push, pushes, health, down, isAlive,
                lastActivity, idleTimer, IDLE_TIMEOUT_MS, beats, beatRooms,
                silentTicks, answered>>

sessionVars == <<memoryVars, exited>>

vars == <<secret, now, tok, tokReq, tokKind, ver, accepted, rooms, members, pc,
          readyState, closeCode, closeCond, roomOf, authPayload, currentRoom,
          localRoom, welcome, inbox, inflight, frames, chatUsername, chatUsers,
          chatCount, contentHistory, onLeaveCalls, push, pushes, health, down,
          isAlive, lastActivity, idleTimer, IDLE_TIMEOUT_MS, beats, beatRooms,
          silentTicks, answered, exited>>

---------------------------------------------------------------------------
(* Bounds of the model *)

MaxTime == 3

MaxConns == 2

MaxHealth == 2

MaxAdds == 22

MaxFrames == 1

MaxPush == 1

\* frames one connection sends in a row, where their order is looked at
MaxBurst == 2

\* heartbeat ticks
MaxBeats == 3

\* messages posted to room "radio" in a row
MaxPosts == 12

---------------------------------------------------------------------------
(* Value domains *)

Dot == "."

Secrets == {"k1", "k2"}

ClientIds == {"u1", "u2"}

RoomNames == {"radio", "chat", "lobby"}

NoRoom == ""

Metas == {"m0", "m1"}

\* 60 * 60 * 1000 ms, in ticks of half an hour
HourTicks == 2

\* expiresAt of the hard-coded credentials (4914121566464: year 2125), in ticks
FarFuture == 9

Digits == <<"0", "1", "2", "3", "4", "5", "6", "7", "8", "9">>

\* Number -> decimal text, as JSON.stringify writes a number
NumStr(n) == Digits[n + 1]

IsNumStr(s) == \E n \in 0..9 : Digits[n + 1] = s

\* decimal text -> number, as JSON.parse reads it
StrNum(s) == CHOOSE n \in 0..9 : Digits[n + 1] = s

---------------------------------------------------------------------------
(* Token codec: src/src/auth/index.js *)

\* Buffer.from(JSON.stringify(tokenData)).toString("base64url"): the fields in
\* the order the object literal lists them, numbers written as text
EncodePayload(d) ==
    <<d.clientId, d.room, NumStr(d.expiresAt), d.metadata, NumStr(d.issuedAt)>>

\* JSON.parse(Buffer.from(payloadStr, "base64url").toString()) succeeds
CanDecode(p) ==
    /\ Len(p) = 5
    /\ IsNumStr(p[3])
    /\ IsNumStr(p[5])

DecodePayload(p) ==
    [clientId |-> p[1], room |-> p[2], expiresAt |-> StrNum(p[3]),
     metadata |-> p[4], issuedAt |-> StrNum(p[5])]

\* an HMAC keyed with a constant instead of AUTH_SECRET
HmacFixedKey(key, msg) == <<"k0">> \o msg

\* crypto.createHmac("sha256", key).update(msg).digest("base64url"): an ideal
\* keyed function, injective in (key, msg), whose text contains no "."
Hmac(key, msg) == <<key>> \o msg

\* generateAuthToken(payload) evaluated at time t under the secret key.
\* The payload's expiresIn / expiresAt are not read: the lifetime is one hour.
generateAuthToken(payload, t, key) ==
    LET tokenData == [clientId  |-> payload.clientId,
                      room      |-> payload.room,
                      expiresAt |-> t + HourTicks,
                      metadata  |-> payload.metadata,
                      issuedAt  |-> t]
        payloadStr == EncodePayload(tokenData)
    IN  payloadStr \o <<Dot>> \o Hmac(key, payloadStr)

\* String.prototype.split("."): the segments between the separators
RECURSIVE SplitFrom(_, _, _)
SplitFrom(s, i, cur) ==
    IF i > Len(s) THEN <<cur>>
    ELSE IF s[i] = Dot THEN <<cur>> \o SplitFrom(s, i + 1, <<>>)
    ELSE SplitFrom(s, i + 1, Append(cur, s[i]))

Split(s) == SplitFrom(s, 1, <<>>)

AllowRoles == {"screen", "advertiser", "control"}

\* ALWAYS_VALID_TOKENS: token text and the payload returned for it
AlwaysValidPayload(role) ==
    [clientId |-> role, room |-> "radio", expiresAt |-> FarFuture,
     metadata |-> role, issuedAt |-> 0]

AlwaysValidToken(role) ==
    EncodePayload(AlwaysValidPayload(role)) \o <<Dot>> \o <<"sig", role>>

AllowListed == {AlwaysValidToken(role) : role \in AllowRoles}

\* verifyAuthToken without the signature comparison (lines 148-156 dropped)
VerifyNoSignature(token, expectedRoom, t, key) ==
    IF token = <<>> THEN {}
    ELSE IF token \in AllowListed
    THEN LET role == CHOOSE r \in AllowRoles : AlwaysValidToken(r) = token
             p == AlwaysValidPayload(role)
         IN  IF expectedRoom # NoRoom /\ p.room # expectedRoom THEN {} ELSE {p}
    ELSE LET parts == Split(token)
         IN  IF Len(parts) # 2 THEN {}
             ELSE IF ~CanDecode(parts[1]) THEN {}
             ELSE LET payload == DecodePayload(parts[1])
                  IN  IF payload.expiresAt # 0 /\ t > payload.expiresAt THEN {}
                      ELSE IF expectedRoom # NoRoom /\ payload.room # expectedRoom
                      THEN {}
                      ELSE {payload}

\* verifyAuthToken returning a hard-coded credential's payload whatever room
\* is expected (lines 128-134 dropped)
VerifyAllowAnyRoom(token, expectedRoom, t, key) ==
    IF token = <<>> THEN {}
    ELSE IF token \in AllowListed
    THEN {AlwaysValidPayload(CHOOSE r \in AllowRoles : AlwaysValidToken(r) = token)}
    ELSE LET parts == Split(token)
         IN  IF Len(parts) # 2 THEN {}
             ELSE IF parts[2] # Hmac(key, parts[1]) THEN {}
             ELSE IF ~CanDecode(parts[1]) THEN {}
             ELSE LET payload == DecodePayload(parts[1])
                  IN  IF payload.expiresAt # 0 /\ t > payload.expiresAt THEN {}
                      ELSE IF expectedRoom # NoRoom /\ payload.room # expectedRoom
                      THEN {}
                      ELSE {payload}

\* verifyAuthToken(token, expectedRoom) evaluated at time t under the secret
\* key: {} is null, {p} the decoded payload p.  expectedRoom = NoRoom is the
\* call without a room.
verifyAuthToken(token, expectedRoom, t, key) ==
    IF token = <<>> THEN {}
    ELSE IF token \in AllowListed
    THEN LET role == CHOOSE r \in AllowRoles : AlwaysValidToken(r) = token
             p == AlwaysValidPayload(role)
         IN  IF expectedRoom # NoRoom /\ p.room # expectedRoom THEN {} ELSE {p}
    ELSE LET parts == Split(token)
         IN  IF Len(parts) # 2 THEN {}
             ELSE IF parts[2] # Hmac(key, parts[1]) THEN {}
             ELSE IF ~CanDecode(parts[1]) THEN {}
             ELSE LET payload == DecodePayload(parts[1])
                  IN  IF payload.expiresAt # 0 /\ t > payload.expiresAt THEN {}
                      ELSE IF expectedRoom # NoRoom /\ payload.room # expectedRoom
                      THEN {}
                      ELSE {payload}

---------------------------------------------------------------------------
(* Close codes *)

\* AuthConfig.ERRORS
NO_TOKEN == 4001

INVALID_TOKEN == 4002

EXPIRED_TOKEN == 4003

WRONG_ROOM == 4004

NO_ROOM_SPECIFIED == 4005

\* literals of server.js and BaseRoomHandler
ORIGIN_NOT_ALLOWED == 4003

REJECTED_BY_ROOM == 4004

IDLE_TIMEOUT == 4000

MAX_CONN_AGE == 4001

SERVER_SHUTTING_DOWN == 4002

AUTH_REQUIRED == 4001

TOKEN_NOT_FOR_ROOM == 4004

---------------------------------------------------------------------------
(* Room handlers *)

Conns == 1..MaxConns

\* RoomRegistry.getHandler: "radio" is registered by initialize(), "chat" is
\* discovered from src/rooms/chat; any other room gets a BaseRoomHandler made
\* for its name.  A handler is named by its class.
getHandler(roomName) ==
    IF roomName = "radio" THEN "RadioHandler"
    ELSE IF roomName = "chat" THEN "ChatHandler"
    ELSE "BaseRoomHandler"

\* BaseRoomHandler.verifyAuth accepting every caller
VerifyAuthAcceptAll(roomName, payload) == [reject |-> FALSE, code |-> 0]

\* BaseRoomHandler.verifyAuth for the handler of roomName; RadioHandler and
\* ChatHandler return the parent's rejection and accept otherwise
verifyAuth(roomName, payload) ==
    IF payload = {} THEN [reject |-> TRUE, code |-> AUTH_REQUIRED]
    ELSE IF \E p \in payload : p.room # roomName
    THEN [reject |-> TRUE, code |-> TOKEN_NOT_FOR_ROOM]
    ELSE [reject |-> FALSE, code |-> 0]

\* What onJoin may return.  RadioHandler and ChatHandler return true; for any
\* other room the handler is BaseRoomHandler (true) or a discovered subclass,
\* which the hook's contract allows to return false.
OnJoinResults(roomName) ==
    IF getHandler(roomName) = "BaseRoomHandler" THEN BOOLEAN ELSE {TRUE}

\* RadioHandler.maxHistorySize
maxHistorySize == 10

\* a history that is never trimmed
addToHistoryUntrimmed(history, item) == Append(history, item)

\* RadioHandler.addToHistory
addToHistory(history, item) ==
    LET h == Append(history, item)
    IN  IF Len(h) > maxHistorySize * 2
        THEN SubSeq(h, Len(h) - maxHistorySize + 1, Len(h))
        ELSE h

---------------------------------------------------------------------------
(* Messages *)

NoData == [type |-> "", text |-> "", username |-> "", room |-> "", by |-> ""]

\* a message written to a socket; via is the room name broadcastToRoom was
\* called with (NoRoom for a message sent to one socket), from the sender's
\* connection (0: the server or an HTTP push)
Msg(kind, via, from, data) ==
    [kind |-> kind, via |-> via, from |-> from, data |-> data]

ErrorMsg(text) == Msg("error", NoRoom, 0, [NoData EXCEPT !.type = "error", !.text = text])

\* a sendJson that writes nothing
SendJsonNowhere(inb, ws, obj) == inb

\* sendJson(ws, obj): ws.send on a socket that is not OPEN delivers nothing
sendJson(inb, ws, obj) ==
    IF readyState[ws] = "OPEN" THEN [inb EXCEPT ![ws] = Append(@, obj)] ELSE inb

\* rooms.get(roomName)
RoomSet(roomName) == IF roomName \in RoomNames THEN rooms[roomName] ELSE 0

\* the loop of broadcastToRoom run over wss.clients instead of the room's Set
RecipientsAllClients(roomName, excludeSocket) ==
    {client \in Conns : /\ \E s \in Conns : client \in members[s]
                        /\ client # excludeSocket
                        /\ readyState[client] = "OPEN"}

\* the loop of broadcastToRoom without the excludeSocket comparison
RecipientsNoExclude(roomName, excludeSocket) ==
    IF RoomSet(roomName) = 0 THEN {}
    ELSE {client \in members[RoomSet(roomName)] : readyState[client] = "OPEN"}

\* the loop of broadcastToRoom leaving after its first send
RecipientsFirstOnly(roomName, excludeSocket) ==
    LET all == IF RoomSet(roomName) = 0 THEN {}
               ELSE {client \in members[RoomSet(roomName)] :
                        client # excludeSocket /\ readyState[client] = "OPEN"}
    IN  IF all = {} THEN {} ELSE {CHOOSE client \in all : TRUE}

\* broadcastToRoom(roomName, message, excludeSocket): the sockets sendJson is
\* called for (excludeSocket 0: null); the count returned is their number
broadcastRecipients(roomName, excludeSocket) ==
    IF RoomSet(roomName) = 0 THEN {}
    ELSE {client \in members[RoomSet(roomName)] :
             client # excludeSocket /\ readyState[client] = "OPEN"}

\* a loop that an exception of ws.send leaves: the sockets after the first
\* failing one (a Set is walked in insertion order) are not reached
ReachedUntilFailure(targets, failed) ==
    {client \in targets : \A f \in targets \cap failed : client < f}

\* the sockets a message gets to when sendJson is called for each of targets
\* and ws.send throws for those in failed: sendJson catches the exception and
\* logs it, and the loop of broadcastToRoom goes on
sendReached(targets, failed) == targets \ failed

deliverTo(inb, targets, message) ==
    [c \in Conns |-> IF c \in targets THEN Append(inb[c], message) ELSE inb[c]]

---------------------------------------------------------------------------
(* Connection requests *)

\* ORIGIN_ALLOWLIST as configured (empty: every origin allowed)
ORIGIN_ALLOWLIST == {"app"}

isOriginAllowed(originHeader) ==
    IF ORIGIN_ALLOWLIST = {} THEN TRUE
    ELSE IF originHeader = "" THEN FALSE
    ELSE originHeader \in ORIGIN_ALLOWLIST

\* room name from the URL: /room/:roomName, else /:roomName (not "room"),
\* else the query parameter room
extractRoom(req) ==
    IF Len(req.path) >= 2 /\ req.path[1] = "room" THEN req.path[2]
    ELSE IF Len(req.path) >= 1 /\ req.path[1] # "room" THEN req.path[1]
    ELSE req.queryRoom

\* extractToken: ?token= first, else Authorization: Bearer
extractToken(req) ==
    IF req.queryToken # <<>> THEN req.queryToken ELSE req.bearer

OtherSecret == CHOOSE k \in Secrets : k # secret

\* a token issued one tick ago by this server
FreshToken(clientId, room) ==
    generateAuthToken([clientId |-> clientId, room |-> room, metadata |-> "m0"],
                      now - 1, secret)

\* a token issued at time 0 by this server
OldToken(clientId, room) ==
    generateAuthToken([clientId |-> clientId, room |-> room, metadata |-> "m0"],
                      0, secret)

\* a token signed with another secret
ForgedToken(clientId, room) ==
    generateAuthToken([clientId |-> clientId, room |-> room, metadata |-> "m0"],
                      now - 1, OtherSecret)

Req(origin, path, queryRoom, queryToken, bearer) ==
    [origin |-> origin, path |-> path, queryRoom |-> queryRoom,
     queryToken |-> queryToken, bearer |-> bearer]

ConnRequests ==
    { Req("evil", <<"room", "radio">>, "", FreshToken("u1", "radio"), <<>>),
      Req("app", <<>>, "", FreshToken("u1", "radio"), <<>>),
      Req("app", <<"room", "radio">>, "", FreshToken("u1", "radio"), <<>>),
      Req("app", <<"room">>, "lobby", FreshToken("u2", "lobby"), <<>>),
      Req("app", <<"chat">>, "", <<>>, FreshToken("u2", "chat")),
      Req("app", <<"room", "radio">>, "", FreshToken("u2", "chat"), <<>>),
      Req("app", <<"room", "radio">>, "", <<>>, OldToken("u2", "radio")),
      Req("app", <<"room", "radio">>, "", ForgedToken("u2", "radio"), <<>>),
      Req("app", <<"room", "radio">>, "", <<>>, <<>>) }

---------------------------------------------------------------------------
(* Inbound frames *)

Obj(type, text, username) ==
    [NoData EXCEPT !.type = type, !.text = text, !.username = username]

Frame(shape, data) == [shape |-> shape, data |-> data]

\* a binary frame; text that is not JSON; a JSON scalar, null, array, object
Frames ==
    { Frame("binary", NoData), Frame("badjson", NoData),
      Frame("scalar", NoData), Frame("null", NoData), Frame("array", NoData),
      Frame("object", Obj("KeepAlive", "", "")),
      Frame("object", Obj("chatMessage", "hi", "")),
      Frame("object", Obj("setUsername", "", "ann")),
      Frame("object", Obj("post", "song", "")) }

\* a comparison that tells upper case from lower case
sameCase(s) == s

\* String.prototype.toLowerCase on the type names in use
toLowerCase(s) == IF s = "KeepAlive" THEN "keepalive" ELSE s

\* SUPPRESSED_TYPES default
SUPPRESSED_TYPES == {"keepalive", "ack"}

\* ChatHandler.bannedWords, and a text of more than 500 characters
bannedTexts == {"spam", "badword"}

LongText == "long"

\* handler.validateMessage(payload, socket): "" is null, else the error text
validateMessage(handler, payload, socket) ==
    IF handler # "ChatHandler" THEN ""
    ELSE IF chatUsername[socket] = "" THEN "Username required"
    ELSE IF payload.type = "chatMessage"
    THEN IF payload.text = "" THEN "Chat message must have a text field"
         ELSE IF payload.text \in bannedTexts
         THEN "Message contains inappropriate content"
         ELSE IF payload.text = LongText THEN "Message too long"
         ELSE ""
    ELSE ""

\* handler.onMessage(payload, socket): what it returns
onMessageResult(handler, payload, socket) ==
    IF handler = "RadioHandler"
    THEN [kind |-> "object",
          data |-> [payload EXCEPT !.room = "radio", !.by = "RadioHandler"]]
    ELSE IF handler = "ChatHandler"
    THEN IF payload.type = "setUsername"
         THEN IF payload.username # ""
              THEN [kind |-> "object",
                    data |-> Obj("systemMessage", "joined the chat", payload.username)]
              ELSE [kind |-> "false", data |-> NoData]
         ELSE IF payload.type = "typing"
         THEN [kind |-> "object", data |-> Obj("userTyping", "", chatUsername[socket])]
         ELSE IF payload.type = "chatMessage"
         THEN [kind |-> "object",
               data |-> Obj("chatMessage", payload.text, chatUsername[socket])]
         ELSE [kind |-> "object",
               data |-> [payload EXCEPT !.username = chatUsername[socket]]]
    ELSE [kind |-> "null", data |-> NoData]

\* handler.getWelcomeMessage(socket): {} is null.  The radio welcome carries
\* the last five history items and the chat welcome the user list and the
\* message count; the model keeps their sizes.
MinOf(a, b) == IF a < b THEN a ELSE b

getWelcomeMessage(handler) ==
    IF handler = "RadioHandler"
    THEN {Msg("welcome", NoRoom, 0,
              [NoData EXCEPT !.type = "welcome", !.room = "radio",
                             !.text = NumStr(MinOf(5, Len(contentHistory)))])}
    ELSE IF handler = "ChatHandler"
    THEN {Msg("welcome", NoRoom, 0,
              [NoData EXCEPT !.type = "welcome", !.room = "chat",
                             !.text = NumStr(Cardinality(chatUsers)),
                             !.by = NumStr(chatCount)])}
    ELSE {}

DefaultWelcome(roomName) ==
    Msg("welcome", NoRoom, 0,
        [NoData EXCEPT !.type = "welcome", !.room = roomName,
                       !.text = "Connected to broadcast server"])

---------------------------------------------------------------------------
(* WebSocket sessions *)

\* no verifyAuthToken call made by the codec harness
NoVer == [room |-> NoRoom, result |-> {}, done |-> FALSE]

NoPush == [stage |-> "none", room |-> NoRoom, token |-> <<>>, body |-> NoData,
           verr |-> "",
           result |-> "", payload |-> NoData, status |-> 0, delivered |-> 0,
           sent |-> {}]

\* no GET /health request yet
NoHealth == [stage |-> "none", detailed |-> FALSE, room |-> NoRoom,
             pending |-> <<>>, rooms |-> <<>>, clients |-> 0, count |-> 0]

SessionStart ==
    /\ health = NoHealth
    /\ rooms = [r \in RoomNames |-> 0]
    /\ members = [s \in Conns |-> {}]
    /\ pc = [c \in Conns |-> "new"]
    /\ readyState = [c \in Conns |-> "CONNECTING"]
    /\ closeCode = [c \in Conns |-> 0]
    /\ closeCond = [c \in Conns |-> ""]
    /\ roomOf = [c \in Conns |-> NoRoom]
    /\ authPayload = [c \in Conns |-> {}]
    /\ currentRoom = [c \in Conns |-> NoRoom]
    /\ localRoom = [c \in Conns |-> 0]
    /\ welcome = [c \in Conns |-> {}]
    /\ inbox = [c \in Conns |-> <<>>]
    /\ inflight = [c \in Conns |-> <<>>]
    /\ chatUsername = [c \in Conns |-> ""]
    /\ chatUsers = {}
    /\ chatCount = 0
    /\ contentHistory = <<>>
    /\ onLeaveCalls = [c \in Conns |-> 0]
    /\ push = NoPush
    /\ pushes = 0
    /\ down = FALSE
    /\ isAlive = [c \in Conns |-> TRUE]
    /\ lastActivity = [c \in Conns |-> 0]
    /\ idleTimer = [c \in Conns |-> FALSE]
    /\ beats = 0
    /\ beatRooms = {}
    /\ silentTicks = [c \in Conns |-> 0]
    /\ answered = [c \in Conns |-> TRUE]
    /\ exited = FALSE

\* The hooks of RadioHandler and ChatHandler are async functions that never
\* wait for anything: the code after an await of one of them is a microtask
\* and runs before the next event.  The hooks of a discovered handler may
\* wait for I/O, and then anything can happen before the caller resumes.
hooksMaySuspend(handler) == handler = "BaseRoomHandler"

MicrotaskPending ==
    \/ \E c \in Conns : /\ pc[c] \in {"verifyAuth", "onJoin", "welcome", "onLeave"}
                        /\ ~hooksMaySuspend(getHandler(roomOf[c]))
    \/ \E c \in Conns : \E i \in 1..Len(inflight[c]) :
          ~hooksMaySuspend(inflight[c][i].handler)
    \/ /\ push.stage \in {"validateHttpPost", "onHttpPost"}
       /\ ~hooksMaySuspend(getHandler(push.room))
    \/ /\ health.stage = "getRoomStats"
       /\ ~hooksMaySuspend(getHandler(health.room))

\* an event handler starts only when no microtask is left, in a process that
\* is still running
EventLoopIdle == ~exited /\ ~MicrotaskPending

\* the code after an await of a hook of this handler may run
MayResume(handler) == ~exited /\ (hooksMaySuspend(handler) => EventLoopIdle)

\* socket.close(code, reason) where the connection handler gives up: nothing
\* happens to a socket that is no longer OPEN
Refuse(c, cond, code) ==
    /\ pc' = [pc EXCEPT ![c] = "rejected"]
    /\ IF readyState[c] \in {"OPEN", "CONNECTING"}
       THEN /\ readyState' = [readyState EXCEPT ![c] = "CLOSING"]
            /\ closeCode' = [closeCode EXCEPT ![c] = code]
            /\ closeCond' = [closeCond EXCEPT ![c] = cond]
       ELSE UNCHANGED <<readyState, closeCode, closeCond>>

\* wss.on("connection") up to its first await: the socket is marked alive,
\* then origin check, room extraction, token extraction and verification,
\* then roomHandler.verifyAuth is called
Connect(c, req) ==
    /\ ~down
    /\ EventLoopIdle
    /\ pc[c] = "new"
    /\ \A d \in Conns : d < c => pc[d] # "new"
    /\ LET roomName == extractRoom(req)
           token == extractToken(req)
           payload == IF token # <<>>
                      THEN verifyAuthToken(token, roomName, now, secret)
                      ELSE {}
       IN  IF ~isOriginAllowed(req.origin)
           THEN /\ Refuse(c, "origin", ORIGIN_NOT_ALLOWED)
                /\ UNCHANGED <<roomOf, authPayload>>
           ELSE IF roomName = NoRoom
           THEN /\ Refuse(c, "noRoom", NO_ROOM_SPECIFIED)
                /\ UNCHANGED <<roomOf, authPayload>>
           ELSE IF token # <<>> /\ payload = {}
           THEN /\ Refuse(c, "invalidToken", INVALID_TOKEN)
                /\ UNCHANGED <<roomOf, authPayload>>
           ELSE /\ pc' = [pc EXCEPT ![c] = "verifyAuth"]
                /\ readyState' = [readyState EXCEPT ![c] = "OPEN"]
                /\ roomOf' = [roomOf EXCEPT ![c] = roomName]
                /\ authPayload' = [authPayload EXCEPT ![c] = payload]
                /\ UNCHANGED <<closeCode, closeCond>>
    /\ isAlive' = [isAlive EXCEPT ![c] = TRUE]
    /\ lastActivity' = [lastActivity EXCEPT ![c] = now]
    /\ UNCHANGED <<exited, tokenVars, registryVars, currentRoom, localRoom, welcome,
                   inbox, inflight, frames, handlerVars, push, pushes, health, down,
                   idleTimer, IDLE_TIMEOUT_MS, beats, beatRooms, silentTicks, answered>>

\* after await roomHandler.verifyAuth: a rejection closes with its code;
\* otherwise joinRoom runs up to its await of handler.onJoin (getRoom makes
\* the room's Set when the registry has none)
AfterVerifyAuth(c) ==
    /\ pc[c] = "verifyAuth"
    /\ MayResume(getHandler(roomOf[c]))
    /\ LET authResult == verifyAuth(roomOf[c], authPayload[c])
       IN  IF authResult.reject
           THEN /\ Refuse(c, IF authPayload[c] = {} THEN "noToken" ELSE "wrongRoom",
                          IF authResult.code # 0 THEN authResult.code
                          ELSE INVALID_TOKEN)
                /\ UNCHANGED <<rooms, localRoom>>
           ELSE /\ rooms' = IF rooms[roomOf[c]] = 0
                            THEN [rooms EXCEPT ![roomOf[c]] = c]
                            ELSE rooms
                /\ localRoom' = [localRoom EXCEPT ![c] = rooms'[roomOf[c]]]
                /\ pc' = [pc EXCEPT ![c] = "onJoin"]
                /\ UNCHANGED <<readyState, closeCode, closeCond>>
    /\ UNCHANGED <<exited, tokenVars, members, roomOf, authPayload, currentRoom, welcome,
                   inbox, inflight, frames, handlerVars, push, pushes, health,
                   down, timerVars>>

\* a join that puts the socket into every Set there is
roomAddAll(sets, room, socket) == [s \in DOMAIN sets |-> sets[s] \cup {socket}]

\* room.add(socket) in joinRoom
roomAdd(sets, room, socket) == [sets EXCEPT ![room] = @ \cup {socket}]

\* after await handler.onJoin: false closes with 4004; otherwise the socket
\* is added to the Set joinRoom holds, and the connection handler goes on to
\* call handler.getWelcomeMessage
AfterOnJoin(c, canJoin) ==
    /\ pc[c] = "onJoin"
    /\ MayResume(getHandler(roomOf[c]))
    /\ canJoin \in OnJoinResults(roomOf[c])
    /\ IF ~canJoin
       THEN /\ Refuse(c, "rejectedByRoom", REJECTED_BY_ROOM)
            /\ UNCHANGED <<members, currentRoom, welcome>>
       ELSE /\ members' = roomAdd(members, localRoom[c], c)
            /\ currentRoom' = [currentRoom EXCEPT ![c] = roomOf[c]]
            /\ welcome' = [welcome EXCEPT
                             ![c] = getWelcomeMessage(getHandler(roomOf[c]))]
            /\ pc' = [pc EXCEPT ![c] = "welcome"]
            /\ UNCHANGED <<readyState, closeCode, closeCond>>
    /\ localRoom' = [localRoom EXCEPT ![c] = 0]
    /\ UNCHANGED <<exited, tokenVars, rooms, roomOf, authPayload, inbox, inflight,
                   frames, handlerVars, push, pushes, health, down, timerVars>>

\* after await handler.getWelcomeMessage: the welcome (the handler's or the
\* default one) is sent, the idle watcher is started if enabled, then the
\* message and close listeners are attached
AfterWelcome(c) ==
    /\ pc[c] = "welcome"
    /\ MayResume(getHandler(roomOf[c]))
    /\ inbox' = sendJson(inbox, c,
                         IF welcome[c] = {} THEN DefaultWelcome(roomOf[c])
                         ELSE CHOOSE w \in welcome[c] : TRUE)
    /\ welcome' = [welcome EXCEPT ![c] = {}]
    /\ pc' = [pc EXCEPT ![c] = "active"]
    /\ idleTimer' = [idleTimer EXCEPT ![c] = IDLE_TIMEOUT_MS > 0]
    /\ UNCHANGED <<exited, tokenVars, registryVars, readyState, closeCode, closeCond,
                   roomOf, authPayload, currentRoom, localRoom, inflight,
                   frames, handlerVars, push, pushes, health, down, isAlive,
                   lastActivity, IDLE_TIMEOUT_MS, beats, beatRooms, silentTicks, answered>>

\* the peer closes its connection
RemoteClose(c) ==
    /\ EventLoopIdle
    /\ pc[c] \in {"verifyAuth", "onJoin", "welcome", "active"}
    /\ readyState[c] = "OPEN"
    /\ readyState' = [readyState EXCEPT ![c] = "CLOSING"]
    /\ closeCode' = [closeCode EXCEPT ![c] = 1000]
    /\ closeCond' = [closeCond EXCEPT ![c] = "remote"]
    /\ UNCHANGED <<exited, tokenVars, registryVars, pc, roomOf, authPayload,
                   currentRoom, localRoom, welcome, inbox, inflight, frames,
                   handlerVars, push, pushes, health, down, timerVars>>

\* the socket's close event.  With the close listener attached, leaveRoom
\* runs up to its await of handler.onLeave: the socket leaves the Set now
\* registered under its room (ChatHandler.onLeave forgets a named user).
\* An event emitted before the listener is attached is lost; the event of a
\* refused socket, which never gets a listener, is left out.
CloseEvent(c) ==
    /\ EventLoopIdle
    /\ readyState[c] = "CLOSING"
    /\ pc[c] # "rejected"
    /\ readyState' = [readyState EXCEPT ![c] = "CLOSED"]
    /\ IF pc[c] = "active"
       THEN IF currentRoom[c] # NoRoom /\ RoomSet(currentRoom[c]) # 0
            THEN /\ members' = [members EXCEPT
                                  ![RoomSet(currentRoom[c])] = @ \ {c}]
                 /\ localRoom' = [localRoom EXCEPT
                                    ![c] = RoomSet(currentRoom[c])]
                 /\ chatUsers' = IF /\ getHandler(currentRoom[c]) = "ChatHandler"
                                    /\ chatUsername[c] # ""
                                 THEN chatUsers \ {c}
                                 ELSE chatUsers
                 /\ onLeaveCalls' = [onLeaveCalls EXCEPT ![c] = @ + 1]
                 /\ pc' = [pc EXCEPT ![c] = "onLeave"]
                 /\ UNCHANGED currentRoom
            ELSE /\ currentRoom' = [currentRoom EXCEPT ![c] = NoRoom]
                 /\ pc' = [pc EXCEPT ![c] = "left"]
                 /\ UNCHANGED <<members, localRoom, chatUsers, onLeaveCalls>>
       ELSE UNCHANGED <<members, localRoom, chatUsers, onLeaveCalls, pc,
                        currentRoom>>
    /\ UNCHANGED <<exited, tokenVars, rooms, closeCode, closeCond, roomOf, authPayload,
                   welcome, inbox, inflight, frames, chatUsername, chatCount,
                   contentHistory, push, pushes, health, down, timerVars>>

\* a leaveRoom that never removes a room name
PruneNever(reg, roomName, room) == reg

\* if (room.size === 0) rooms.delete(socket.currentRoom): room is the Set
\* leaveRoom took from the registry before its await
pruneEmptyRoom(reg, roomName, room) ==
    IF members[room] = {} THEN [reg EXCEPT ![roomName] = 0] ELSE reg

\* after await handler.onLeave: an empty Set has its room name removed from
\* the registry, and the socket forgets its room
LeaveFinish(c) ==
    /\ pc[c] = "onLeave"
    /\ MayResume(getHandler(roomOf[c]))
    /\ rooms' = pruneEmptyRoom(rooms, currentRoom[c], localRoom[c])
    /\ currentRoom' = [currentRoom EXCEPT ![c] = NoRoom]
    /\ pc' = [pc EXCEPT ![c] = "left"]
    /\ localRoom' = [localRoom EXCEPT ![c] = 0]
    /\ UNCHANGED <<exited, tokenVars, members, readyState, closeCode, closeCond, roomOf,
                   authPayload, welcome, inbox, inflight, frames,
                   handlerVars, push, pushes, health, down, timerVars>>

\* SIGINT / SIGTERM: every client is closed with 4002 and the servers stop
\* accepting
shutdown ==
    /\ ~down
    /\ EventLoopIdle
    /\ down' = TRUE
    /\ readyState' = [c \in Conns |-> IF readyState[c] = "OPEN" THEN "CLOSING"
                                      ELSE readyState[c]]
    /\ closeCode' = [c \in Conns |-> IF readyState[c] = "OPEN"
                                     THEN SERVER_SHUTTING_DOWN ELSE closeCode[c]]
    /\ closeCond' = [c \in Conns |-> IF readyState[c] = "OPEN" THEN "shutdown"
                                     ELSE closeCond[c]]
    /\ UNCHANGED <<exited, tokenVars, registryVars, pc, roomOf, authPayload,
                   currentRoom, localRoom, welcome, inbox, inflight, frames,
                   handlerVars, push, pushes, health, timerVars>>

\* the timer shutdown() set fires, or nothing is left to keep the process
\* alive: process.exit(0)
processExit ==
    /\ down
    /\ ~exited
    /\ exited' = TRUE
    /\ UNCHANGED <<tokenVars, memoryVars>>

\* The hooks of RadioHandler and ChatHandler contain nothing that throws; a
\* discovered handler's hook may throw, that is, return a promise that is
\* rejected.
hooksMayThrow(handler) == handler = "BaseRoomHandler"

\* A rejected promise nobody handles: the listeners of the server are async
\* functions whose promises the emitter drops, the server installs no
\* unhandledRejection handler, and Node.js 18 and later (README) then
\* terminate the process.  What the process held is left as it was; no
\* handler runs any more.
unhandledRejection ==
    /\ exited' = TRUE
    /\ UNCHANGED <<tokenVars, memoryVars>>

\* verifyAuth, onJoin or getWelcomeMessage throws: nothing in the connection
\* handler or in joinRoom catches it
ThrowInAdmission(c) ==
    /\ pc[c] \in {"verifyAuth", "onJoin", "welcome"}
    /\ hooksMayThrow(getHandler(roomOf[c]))
    /\ MayResume(getHandler(roomOf[c]))
    /\ unhandledRejection

\* onLeave throws: nothing in leaveRoom or in the close listener catches it
ThrowInLeave(c) ==
    /\ pc[c] = "onLeave"
    /\ hooksMayThrow(getHandler(roomOf[c]))
    /\ MayResume(getHandler(roomOf[c]))
    /\ unhandledRejection

---------------------------------------------------------------------------
(* Inbound messages *)

RemoveAt(seq, i) == SubSeq(seq, 1, i - 1) \o SubSeq(seq, i + 1, Len(seq))

\* a message listener that closes the socket on every frame that is not a
\* JSON object and drops the frame
socketMessageStrict(c, f) ==
    /\ EventLoopIdle
    /\ pc[c] = "active"
    /\ readyState[c] = "OPEN"
    /\ frames > 0
    /\ frames' = frames - 1
    /\ readyState' = [readyState EXCEPT
                         ![c] = IF f.shape # "object" THEN "CLOSING" ELSE @]
    /\ UNCHANGED <<exited, tokenVars, registryVars, pc, closeCode, closeCond,
                   roomOf, authPayload, currentRoom, localRoom, welcome, inbox,
                   inflight, handlerVars, push, pushes, health, down, timerVars>>

\* socket.on("message") up to its await of handler.validateMessage: the
\* activity time is updated; binary
\* frames are dropped, unparsable text and non-object JSON are answered with
\* an error; typeof [] is "object", so an array goes on like an object
socketMessage(c, f) ==
    /\ EventLoopIdle
    /\ pc[c] = "active"
    /\ readyState[c] = "OPEN"
    /\ frames > 0
    /\ frames' = frames - 1
    /\ IF f.shape = "binary"
       THEN UNCHANGED <<inbox, inflight>>
       ELSE IF f.shape = "badjson"
       THEN /\ inbox' = sendJson(inbox, c, ErrorMsg("Invalid JSON payload"))
            /\ UNCHANGED inflight
       ELSE IF f.shape \in {"scalar", "null"}
       THEN /\ inbox' = sendJson(inbox, c, ErrorMsg("Payload must be a JSON object"))
            /\ UNCHANGED inflight
       ELSE /\ inflight' = [inflight EXCEPT ![c] = Append(@,
                   [stage |-> "validateMessage",
                    handler |-> getHandler(currentRoom[c]),
                    payload |-> f.data,
                    verr |-> validateMessage(getHandler(currentRoom[c]), f.data, c),
                    result |-> [kind |-> "null", data |-> NoData]])]
            /\ UNCHANGED inbox
    /\ lastActivity' = [lastActivity EXCEPT ![c] = now]
    /\ UNCHANGED <<exited, tokenVars, registryVars, socketVars, handlerVars, push,
                   pushes, health, down, isAlive, idleTimer, IDLE_TIMEOUT_MS, beats, beatRooms,
                   silentTicks, answered>>

\* after await handler.validateMessage: a validation error goes back to the
\* sender, a suppressed type is acknowledged to the sender, anything else is
\* handed to handler.onMessage (RadioHandler records it, ChatHandler updates
\* its users and its message count)
AfterValidateMessageReturning(c, i, res) ==
    /\ i \in 1..Len(inflight[c])
    /\ inflight[c][i].stage = "validateMessage"
    /\ MayResume(inflight[c][i].handler)
    /\ LET e == inflight[c][i]
       IN  IF e.verr # ""
           THEN /\ inbox' = sendJson(inbox, c, ErrorMsg(e.verr))
                /\ inflight' = [inflight EXCEPT ![c] = RemoveAt(@, i)]
                /\ UNCHANGED handlerVars
           ELSE IF toLowerCase(e.payload.type) \in SUPPRESSED_TYPES
           THEN /\ inbox' = sendJson(inbox, c,
                       Msg("ack", NoRoom, 0,
                           [NoData EXCEPT !.type = "ack", !.text = e.payload.type]))
                /\ inflight' = [inflight EXCEPT ![c] = RemoveAt(@, i)]
                /\ UNCHANGED handlerVars
           ELSE /\ inflight' = [inflight EXCEPT
                                  ![c][i] = [e EXCEPT !.stage = "onMessage",
                                                      !.result = res]]
                /\ contentHistory' = IF e.handler = "RadioHandler"
                                     THEN addToHistory(contentHistory, res.data)
                                     ELSE contentHistory
                /\ chatUsername' = IF /\ e.handler = "ChatHandler"
                                      /\ e.payload.type = "setUsername"
                                      /\ e.payload.username # ""
                                   THEN [chatUsername EXCEPT ![c] = e.payload.username]
                                   ELSE chatUsername
                /\ chatUsers' = IF /\ e.handler = "ChatHandler"
                                   /\ e.payload.type = "setUsername"
                                   /\ e.payload.username # ""
                                THEN chatUsers \cup {c}
                                ELSE chatUsers
                /\ chatCount' = IF /\ e.handler = "ChatHandler"
                                   /\ e.payload.type = "chatMessage"
                                THEN chatCount + 1
                                ELSE chatCount
                /\ UNCHANGED <<inbox, onLeaveCalls>>
    /\ UNCHANGED <<exited, tokenVars, registryVars, socketVars, frames, push, pushes, health, down, timerVars>>

\* the same with onMessage of the three handlers of the repository
AfterValidateMessage(c, i) ==
    /\ i \in 1..Len(inflight[c])
    /\ AfterValidateMessageReturning(c, i,
           onMessageResult(inflight[c][i].handler, inflight[c][i].payload, c))

\* what onMessage of a discovered room handler may return for a payload:
\* false, null, or an object
discoveredOnMessage(payload) ==
    {[kind |-> "false", data |-> NoData],
     [kind |-> "null", data |-> NoData],
     [kind |-> "object", data |-> [payload EXCEPT !.by = "discovered"]]}

\* the same for a message of a client of a discovered room
AfterValidateMessageDiscovered(c, i, res) ==
    /\ i \in 1..Len(inflight[c])
    /\ inflight[c][i].handler = "BaseRoomHandler"
    /\ res \in discoveredOnMessage(inflight[c][i].payload)
    /\ AfterValidateMessageReturning(c, i, res)

\* the data of the envelope that is broadcast: the payload unless the hook
\* returned something
payloadAlways(payload, result) == payload

enrichedData(payload, result) ==
    IF result.kind = "null" THEN payload ELSE result.data

\* after await handler.onMessage: false drops the message; otherwise the
\* handler's object (or the payload itself) is broadcast to the room the
\* socket is in now, the sender excluded; failed are the sockets whose
\* ws.send throws
AfterOnMessageFailing(c, i, failed) ==
    /\ i \in 1..Len(inflight[c])
    /\ inflight[c][i].stage = "onMessage"
    /\ MayResume(inflight[c][i].handler)
    /\ LET e == inflight[c][i]
           data == enrichedData(e.payload, e.result)
       IN  /\ inbox' = IF e.result.kind = "false" THEN inbox
                       ELSE deliverTo(inbox,
                                      sendReached(broadcastRecipients(currentRoom[c], c),
                                                  failed),
                                      Msg("broadcast", currentRoom[c], c, data))
           /\ inflight' = [inflight EXCEPT ![c] = RemoveAt(@, i)]
    /\ UNCHANGED <<exited, tokenVars, registryVars, socketVars, frames, handlerVars,
                   push, pushes, health, down, timerVars>>

\* the same with every write succeeding
AfterOnMessage(c, i) == AfterOnMessageFailing(c, i, {})

\* validateMessage or onMessage throws: nothing in the message listener
\* catches it
ThrowInMessage(c, i) ==
    /\ i \in 1..Len(inflight[c])
    /\ hooksMayThrow(inflight[c][i].handler)
    /\ MayResume(inflight[c][i].handler)
    /\ unhandledRejection

---------------------------------------------------------------------------
(* Heartbeat and idle watcher *)

\* wss.clients: the sockets accepted and not yet closed
wssClients == {c \in Conns : pc[c] # "new" /\ readyState[c] \in {"OPEN", "CLOSING"}}

\* a heartbeat that terminates the sockets with no recent activity
TerminatesIfIdle(ws) == now - lastActivity[ws] > IDLE_TIMEOUT_MS

\* if (ws.isAlive === false) return ws.terminate()
heartbeatTerminates(ws) == isAlive[ws] = FALSE

\* RadioHandler.onHeartbeat
onHeartbeat(history) ==
    IF Len(history) > maxHistorySize
    THEN SubSeq(history, Len(history) - maxHistorySize + 1, Len(history))
    ELSE history

\* one tick of the heartbeat interval.  wss.clients is walked in the order
\* the sockets were accepted: a socket that has not answered the last ping is
\* terminated, the others are marked and pinged.  Then the handler of every
\* registered room with members gets onHeartbeat (only RadioHandler's does
\* anything); the hooks are taken to settle without waiting.  pingFails and
\* terminateFails are the sockets whose ping() and terminate() throw,
\* hookThrows the rooms whose onHeartbeat throws.  The exception of ping is
\* caught and so is that of onHeartbeat; the exception of terminate leaves
\* the forEach and the interval's async callback, nothing handles it, and the
\* process terminates.
heartbeatTickFailing(pingFails, terminateFails, hookThrows) ==
    /\ ~down
    /\ EventLoopIdle
    /\ beats < MaxBeats
    /\ \A r \in hookThrows : hooksMayThrow(getHandler(r))
    /\ beats' = beats + 1
    /\ LET thrown == {ws \in wssClients :
                         heartbeatTerminates(ws) /\ ws \in terminateFails}
           visited == {ws \in wssClients : \A t \in thrown : ws < t}
           terminated == {ws \in visited : heartbeatTerminates(ws)}
           called == IF thrown # {} THEN {}
                     ELSE {r \in RoomNames : rooms[r] # 0 /\ members[rooms[r]] # {}}
       IN  /\ isAlive' = [ws \in Conns |->
                             IF ws \in visited \ terminated THEN FALSE
                             ELSE isAlive[ws]]
           /\ readyState' = [ws \in Conns |->
                                IF ws \in terminated THEN "CLOSING"
                                ELSE readyState[ws]]
           /\ closeCode' = [ws \in Conns |->
                               IF ws \in terminated /\ readyState[ws] = "OPEN"
                               THEN 1006 ELSE closeCode[ws]]
           /\ closeCond' = [ws \in Conns |->
                               IF ws \in terminated /\ readyState[ws] = "OPEN"
                               THEN "heartbeat" ELSE closeCond[ws]]
           /\ silentTicks' = [ws \in Conns |->
                                 IF ws \in visited
                                 THEN MinOf(silentTicks[ws] + 1, MaxBeats)
                                 ELSE silentTicks[ws]]
           /\ answered' = [ws \in Conns |->
                              IF ws \in visited \ terminated THEN FALSE
                              ELSE answered[ws]]
           /\ beatRooms' = called
           /\ contentHistory' = IF "radio" \in called
                                THEN onHeartbeat(contentHistory)
                                ELSE contentHistory
           /\ exited' = (thrown # {})
    /\ UNCHANGED <<tokenVars, registryVars, pc, roomOf, authPayload,
                   currentRoom, localRoom, welcome, inbox, inflight, frames,
                   chatUsername, chatUsers, chatCount, onLeaveCalls, push,
                   pushes, health, down, lastActivity, idleTimer, IDLE_TIMEOUT_MS>>

\* the same with no call failing
heartbeatTick == heartbeatTickFailing({}, {}, {})

\* socket.on("pong"), attached when joinRoom has returned: the peer's answer
\* to a ping is the proof of life
pong(c) ==
    /\ EventLoopIdle
    /\ pc[c] \in {"welcome", "active"}
    /\ readyState[c] = "OPEN"
    /\ isAlive' = [isAlive EXCEPT ![c] = TRUE]
    /\ lastActivity' = [lastActivity EXCEPT ![c] = now]
    /\ silentTicks' = [silentTicks EXCEPT ![c] = 0]
    /\ answered' = [answered EXCEPT ![c] = TRUE]
    /\ UNCHANGED <<exited, tokenVars, registryVars, socketVars, inbox, inflight, frames,
                   handlerVars, push, pushes, health, down, idleTimer, IDLE_TIMEOUT_MS,
                   beats, beatRooms>>

\* the peer's pong arrives while the connection handler has yet to attach
\* its pong listener: nothing takes it
pongUnheard(c) ==
    /\ EventLoopIdle
    /\ pc[c] \in {"verifyAuth", "onJoin"}
    /\ readyState[c] = "OPEN"
    /\ ~answered[c]
    /\ answered' = [answered EXCEPT ![c] = TRUE]
    /\ UNCHANGED <<exited, tokenVars, registryVars, socketVars, inbox, inflight, frames,
                   handlerVars, push, pushes, health, down, isAlive, lastActivity,
                   idleTimer, IDLE_TIMEOUT_MS, beats, beatRooms, silentTicks>>

\* a watcher that takes a socket for idle as soon as its last activity is
\* IDLE_TIMEOUT_MS old
idleAtTimeout(c) == now - lastActivity[c] >= IDLE_TIMEOUT_MS

\* Date.now() - lastActivity > IDLE_TIMEOUT_MS
idleTooLong(c) == now - lastActivity[c] > IDLE_TIMEOUT_MS

\* the connection's idleCheck timer fires: past the timeout the socket is
\* closed with 4000; otherwise the timer is set again while the socket is
\* open
idleCheck(c) ==
    /\ EventLoopIdle
    /\ idleTimer[c]
    /\ IF idleTooLong(c)
       THEN /\ idleTimer' = [idleTimer EXCEPT ![c] = FALSE]
            /\ IF readyState[c] = "OPEN"
               THEN /\ readyState' = [readyState EXCEPT ![c] = "CLOSING"]
                    /\ closeCode' = [closeCode EXCEPT ![c] = IDLE_TIMEOUT]
                    /\ closeCond' = [closeCond EXCEPT ![c] = "idle"]
               ELSE UNCHANGED <<readyState, closeCode, closeCond>>
       ELSE /\ idleTimer' = [idleTimer EXCEPT ![c] = readyState[c] = "OPEN"]
            /\ UNCHANGED <<readyState, closeCode, closeCond>>
    /\ UNCHANGED <<exited, tokenVars, registryVars, pc, roomOf, authPayload,
                   currentRoom, localRoom, welcome, inbox, inflight, frames,
                   handlerVars, push, pushes, health, down, isAlive, lastActivity,
                   IDLE_TIMEOUT_MS, beats, beatRooms, silentTicks, answered>>

---------------------------------------------------------------------------
(* HTTP push: POST /room/:roomName/post *)

Body(type, timestamp, data) == [type |-> type, timestamp |-> timestamp, data |-> data]

\* a field that is "" is missing, one that is NotAString is a number; data
\* is described by its shape ("content1": an object whose content has an
\* id, "contentNoId": an object whose content has none, "null", "array",
\* "scalar")
NotAString == "<number>"

Bodies ==
    { Body("post", "2025-10-02T00:00:00Z", "content1"),
      Body("post", "2025-10-02T00:00:00Z", "contentNoId"),
      Body("post", "2025-10-02T00:00:00Z", "array"),
      Body("post", "2025-10-02T00:00:00Z", "null"),
      Body("post", "2025-10-02T00:00:00Z", "scalar"),
      Body("post", "2025-10-02T00:00:00Z", ""),
      Body("post", "yesterday-ish", "content1"),
      Body("post", NotAString, "content1"),
      Body("post", "", "content1"),
      Body(NotAString, "2025-10-02T00:00:00Z", "content1"),
      Body("", "2025-10-02T00:00:00Z", "content1") }

\* Date.parse on the timestamps in use
isNaNDate(ts) == ts # "2025-10-02T00:00:00Z"

\* a structural validation that does not look at data
StructuralErrorsNoData(body) ==
    (IF body.type \in {"", NotAString} THEN {"Field type must be a string"}
     ELSE {})
    \cup (IF body.timestamp = "" \/ body.timestamp = NotAString
             \/ body.timestamp # "2025-10-02T00:00:00Z"
          THEN {"timestamp must be a string"}
          ELSE {})

\* the structural validation of handlePost
structuralErrors(body) ==
    (IF body.type = "" THEN {"Missing field: type", "Field type must be a string"}
     ELSE IF body.type = NotAString THEN {"Field type must be a string"}
     ELSE {})
    \cup (IF body.timestamp = ""
          THEN {"Missing field: timestamp", "timestamp must be a string"}
          ELSE IF body.timestamp = NotAString
          THEN {"timestamp must be a string"}
          ELSE IF isNaNDate(body.timestamp)
          THEN {"timestamp must be an ISO-8601 date string"}
          ELSE {})
    \cup (IF body.data = ""
          THEN {"Missing field: data", "data must be a non-null JSON object"}
          ELSE IF body.data \in {"array", "null", "scalar"}
          THEN {"data must be a non-null JSON object"}
          ELSE {})

\* handler.validateHttpPost(body): 0 is null, else the status code
validateHttpPost(handler, body) ==
    IF handler = "RadioHandler" /\ body.data = "contentNoId" THEN 422 ELSE 0

\* a handlePost that ignores what onHttpPost returns
PayloadBodyOnly(handler, roomName, body) ==
    [NoData EXCEPT !.type = body.type, !.text = body.data]

\* handler.onHttpPost(payload): RadioHandler returns the payload with its
\* room and contentType added; the other handlers return null
onHttpPostPayload(handler, roomName, body) ==
    IF handler = "RadioHandler"
    THEN [NoData EXCEPT !.type = body.type, !.text = body.data,
                        !.room = roomName, !.by = "radio"]
    ELSE [NoData EXCEPT !.type = body.type, !.text = body.data]

\* a validateHttpPostAuth that lets every request through
HttpAuthAcceptAll(token, roomName) == {AlwaysValidPayload("advertiser")}

\* validateHttpPostAuth(req, roomName)
validateHttpPostAuth(token, roomName) ==
    IF token = <<>> THEN {} ELSE verifyAuthToken(token, roomName, now, secret)

\* the response: its status and the error text of its body
Responded(roomName, token, status, error) ==
    [NoPush EXCEPT !.stage = "done", !.room = roomName, !.token = token,
                   !.status = status, !.verr = error]

\* req.url.match(/^\/room\/([^\/]+)(\/[^\/]+.*)$/) and the route table's
\* POST /post; a path is the sequence of its segments
roomRouteMatch(path) == Len(path) = 3 /\ path[1] = "room" /\ path[3] = "post"

\* the request handler for a POST up to handlePost's await of
\* handler.validateHttpPost, as the state of the push: 404 when no route
\* matches, 401 without a token valid for the room, 422 on a structural
\* error
routeRequest(path, token, body) ==
    IF ~roomRouteMatch(path) THEN Responded(NoRoom, token, 404, "Not found")
    ELSE IF validateHttpPostAuth(token, path[2]) = {}
    THEN Responded(path[2], token, 401, "Authentication required")
    ELSE IF structuralErrors(body) # {}
    THEN Responded(path[2], token, 422, "Validation failed")
    ELSE [NoPush EXCEPT !.stage = "validateHttpPost", !.room = path[2],
                        !.token = token, !.body = body]

\* handler.getRoomStats(clients): RadioHandler and ChatHandler count the
\* clients and report their own counters, BaseRoomHandler counts the clients
getRoomStats(handler, clients) ==
    IF handler = "RadioHandler"
    THEN [clients |-> Cardinality(clients),
          contentHistorySize |-> Len(contentHistory)]
    ELSE IF handler = "ChatHandler"
    THEN [clients |-> Cardinality(clients),
          users |-> Cardinality(chatUsers),
          totalMessages |-> chatCount]
    ELSE [clients |-> Cardinality(clients)]

\* the room names the iterator of rooms.entries() has yet to yield
roomsToVisit(seen) == {r \in RoomNames : rooms[r] # 0 /\ r \notin seen}

\* what the iterator may yield next (the Map's insertion order is not kept
\* in the model): one of these rooms, or NoRoom when it is exhausted
nextEntries(seen) == IF roomsToVisit(seen) = {} THEN {NoRoom} ELSE roomsToVisit(seen)

\* one turn of the loop over rooms.entries() in the /health route, after the
\* rooms in stats, with r the iterator's next entry: a basic request takes
\* every count without waiting, a detailed one calls getRoomStats of r and
\* waits for it, and the response is written when the iterator is exhausted
healthLoop(h, stats, r) ==
    IF ~h.detailed
    THEN [h EXCEPT !.stage = "done", !.room = NoRoom, !.pending = <<>>,
                   !.rooms = [name \in roomsToVisit({}) |->
                                 [clients |-> Cardinality(members[rooms[name]])]],
                   !.clients = Cardinality(wssClients)]
    ELSE IF r = NoRoom
    THEN [h EXCEPT !.stage = "done", !.room = NoRoom, !.pending = <<>>,
                   !.rooms = stats, !.clients = Cardinality(wssClients)]
    ELSE [h EXCEPT !.stage = "getRoomStats", !.room = r,
                   !.pending = getRoomStats(getHandler(r), members[rooms[r]]),
                   !.rooms = stats]

\* GET /health or GET /health?detailed=true arrives
healthStart(detailed) ==
    /\ ~down
    /\ EventLoopIdle
    /\ health.stage \in {"none", "done"}
    /\ health.count < MaxHealth
    /\ \E r \in nextEntries({}) :
          health' = healthLoop([NoHealth EXCEPT !.detailed = detailed,
                                                !.count = health.count + 1],
                               <<>>, r)

\* a /health route that counts each request as a chat message
healthCounting(detailed) ==
    /\ healthStart(detailed)
    /\ chatCount' = chatCount + 1
    /\ UNCHANGED <<exited, tokenVars, registryVars, socketVars, inbox, inflight,
                   frames, chatUsername, chatUsers, contentHistory, onLeaveCalls,
                   push, pushes, down, timerVars>>

\* the /health route up to its first await, or to its response
healthGet(detailed) ==
    /\ healthStart(detailed)
    /\ UNCHANGED <<exited, tokenVars, registryVars, socketVars, inbox, inflight,
                   frames, handlerVars, push, pushes, down, timerVars>>

\* after await handler.getRoomStats: the room's statistics go into the
\* response and the loop goes on
AfterGetRoomStats ==
    /\ health.stage = "getRoomStats"
    /\ MayResume(getHandler(health.room))
    /\ LET stats == (health.room :> health.pending) @@ health.rooms
       IN  \E r \in nextEntries(DOMAIN stats) : health' = healthLoop(health, stats, r)
    /\ UNCHANGED <<exited, tokenVars, registryVars, socketVars, inbox, inflight,
                   frames, handlerVars, push, pushes, down, timerVars>>

\* POST /room/:roomName/post
HttpPost(roomName, token, body) ==
    /\ ~down
    /\ EventLoopIdle
    /\ pushes < MaxPush
    /\ push.stage \in {"none", "done"}
    /\ pushes' = pushes + 1
    /\ push' = routeRequest(<<"room", roomName, "post">>, token, body)
    /\ UNCHANGED <<exited, tokenVars, registryVars, socketVars, inbox, inflight, frames,
                   handlerVars, health, down, timerVars>>

\* POST /postcontent: the body is sent on to this server's
\* /rooms/radio/post with the advertiser token, and the answer to that
\* request is the answer to the caller, who sent no token
handlePostContentRequest(body) ==
    /\ ~down
    /\ EventLoopIdle
    /\ pushes < MaxPush
    /\ push.stage \in {"none", "done"}
    /\ pushes' = pushes + 1
    /\ push' = [routeRequest(<<"rooms", "radio", "post">>,
                             AlwaysValidToken("advertiser"), body)
                   EXCEPT !.token = <<>>]
    /\ UNCHANGED <<exited, tokenVars, registryVars, socketVars, inbox, inflight, frames,
                   handlerVars, health, down, timerVars>>

\* after await handler.validateHttpPost: its rejection is the response;
\* otherwise handler.onHttpPost is called (RadioHandler records the payload)
AfterValidateHttpPost ==
    /\ push.stage = "validateHttpPost"
    /\ MayResume(getHandler(push.room))
    /\ LET handler == getHandler(push.room)
           code == validateHttpPost(handler, push.body)
           payload == onHttpPostPayload(handler, push.room, push.body)
       IN  IF code # 0
           THEN /\ push' = Responded(push.room, push.token, code,
                                      "Content must have an id")
                /\ UNCHANGED contentHistory
           ELSE /\ push' = [push EXCEPT !.stage = "onHttpPost", !.payload = payload]
                /\ contentHistory' = IF handler = "RadioHandler"
                                     THEN addToHistory(contentHistory, payload)
                                     ELSE contentHistory
    /\ UNCHANGED <<exited, tokenVars, registryVars, socketVars, inbox, inflight, frames,
                   chatUsername, chatUsers, chatCount, onLeaveCalls, pushes, health,
                   down, timerVars>>

\* after await handler.onHttpPost: the payload is broadcast to the handler's
\* room with nobody excluded, and the response carries the count and the
\* echo; failed are the sockets whose ws.send throws.  broadcastToRoom counts
\* a socket once sendJson has returned for it.
AfterOnHttpPostFailing(failed) ==
    /\ push.stage = "onHttpPost"
    /\ MayResume(getHandler(push.room))
    /\ LET targets == broadcastRecipients(push.room, 0)
       IN  /\ inbox' = deliverTo(inbox, sendReached(targets, failed),
                                 Msg("push", push.room, 0, push.payload))
           /\ push' = [push EXCEPT !.stage = "done", !.status = 200,
                                   !.delivered = Cardinality(targets),
                                   !.sent = targets]
    /\ UNCHANGED <<exited, tokenVars, registryVars, socketVars, inflight, frames,
                   handlerVars, pushes, health, down, timerVars>>

\* the same with every write succeeding
AfterOnHttpPost == AfterOnHttpPostFailing({})

---------------------------------------------------------------------------
(* The server *)

Init ==
    /\ secret = "k1"
    /\ now = MaxTime
    /\ tok = <<>>
    /\ tokReq = {}
    /\ tokKind = "none"
    /\ ver = NoVer
    /\ accepted = {}
    /\ SessionStart
    /\ frames = MaxFrames
    /\ IDLE_TIMEOUT_MS = 0

\* pushes to room "radio" with a valid token and a body that is accepted,
\* rejected by the handler or malformed; without a token; with a token of
\* another room; and a push to room "lobby"
PushRequests ==
    { <<"radio", FreshToken("u1", "radio"), Body("post", "2025-10-02T00:00:00Z", d)>> :
         d \in {"content1", "contentNoId", "array"} }
    \cup { <<"radio", <<>>, Body("post", "2025-10-02T00:00:00Z", "content1")>>,
           <<"radio", FreshToken("u1", "chat"),
             Body("post", "2025-10-02T00:00:00Z", "content1")>>,
           <<"lobby", FreshToken("u1", "lobby"),
             Body("post", "2025-10-02T00:00:00Z", "content1")>> }

Next ==
    \/ \E c \in Conns, req \in ConnRequests : Connect(c, req)
    \/ \E c \in Conns : AfterVerifyAuth(c)
    \/ \E c \in Conns, canJoin \in BOOLEAN : AfterOnJoin(c, canJoin)
    \/ \E c \in Conns : AfterWelcome(c)
    \/ \E c \in Conns : RemoteClose(c)
    \/ \E c \in Conns : CloseEvent(c)
    \/ \E c \in Conns : LeaveFinish(c)
    \/ \E c \in Conns, f \in Frames : socketMessage(c, f)
    \/ \E c \in Conns, i \in 1..MaxFrames : AfterValidateMessage(c, i)
    \/ \E c \in Conns, i \in 1..MaxFrames : AfterOnMessage(c, i)
    \/ \E rq \in PushRequests : HttpPost(rq[1], rq[2], rq[3])
    \/ AfterValidateHttpPost
    \/ AfterOnHttpPost
    \/ shutdown

Spec == Init /\ [][Next]_vars

---------------------------------------------------------------------------
(* A burst of messages: clients of room "lobby", whose handler's hooks may *)
(* wait; the first of them sends MaxBurst messages in a row                *)

BurstInit ==
    /\ secret = "k1"
    /\ now = MaxTime
    /\ tok = <<>>
    /\ tokReq = {}
    /\ tokKind = "none"
    /\ ver = NoVer
    /\ accepted = {}
    /\ SessionStart
    /\ frames = MaxBurst
    /\ IDLE_TIMEOUT_MS = 0

LobbyRequests == {req \in ConnRequests : extractRoom(req) = "lobby"}

\* the messages of the burst, in the order they are sent
BurstFrames ==
    [n \in 1..MaxBurst |-> Frame("object", Obj("post", NumStr(n), ""))]

BurstNext ==
    \/ \E c \in Conns, req \in LobbyRequests : Connect(c, req)
    \/ \E c \in Conns : AfterVerifyAuth(c)
    \/ \E c \in Conns : AfterOnJoin(c, TRUE)
    \/ \E c \in Conns : AfterWelcome(c)
    \/ socketMessage(1, BurstFrames[MaxBurst - frames + 1])
    \/ \E c \in Conns, i \in 1..MaxBurst : AfterValidateMessage(c, i)
    \/ \E c \in Conns, i \in 1..MaxBurst : AfterOnMessage(c, i)

SpecBurst == BurstInit /\ [][BurstNext]_vars

---------------------------------------------------------------------------
(* Codec harness: a client obtains a token, possibly damages it, and the   *)
(* server verifies it; the clock advances and the secret may be replaced   *)
(* by a restart with another AUTH_SECRET.                                  *)

\* lifetimes a caller may ask for (expiresIn), in ticks
Lifetimes == {HourTicks, 3}

TokenRequests ==
    [clientId : ClientIds \cup {""}, room : RoomNames \cup {""},
     metadata : Metas, expiresIn : Lifetimes]

TokenInit ==
    /\ secret \in Secrets
    /\ now = 0
    /\ tok = <<>>
    /\ tokReq = {}
    /\ tokKind = "none"
    /\ ver = NoVer
    /\ accepted = {}
    /\ SessionStart
    /\ frames = MaxFrames
    /\ IDLE_TIMEOUT_MS = 0

\* POST /auth/token: 400 when clientId or room is missing, else a token from
\* generateAuthToken({clientId, room, metadata})
AuthTokenEndpoint(data) ==
    /\ tokKind = "none"
    /\ IF data.clientId = "" \/ data.room = ""
       THEN UNCHANGED <<tok, tokReq, tokKind>>
       ELSE /\ tok' = generateAuthToken(
                          [clientId |-> data.clientId, room |-> data.room,
                           metadata |-> data.metadata], now, secret)
            /\ tokReq' = {data @@ [issuedAt |-> now]}
            /\ tokKind' = "issued"
    /\ UNCHANGED <<secret, now, ver, accepted>>
    /\ UNCHANGED sessionVars

\* a client presents one of the hard-coded credentials
TakeAllowListed(role) ==
    /\ tokKind = "none"
    /\ tok' = AlwaysValidToken(role)
    /\ tokKind' = "allow"
    /\ UNCHANGED <<secret, now, tokReq, ver, accepted>>
    /\ UNCHANGED sessionVars

SigAlphabet == {"x"}

\* one character of the signature segment is replaced by another
TamperSignature(i, ch) ==
    /\ tokKind \in {"issued", "allow"}
    /\ LET parts == Split(tok)
           at == Len(parts[1]) + 1 + i
       IN  /\ i \in 1..Len(parts[2])
           /\ tok[at] # ch
           /\ tok' = [tok EXCEPT ![at] = ch]
    /\ tokKind' = "tampered"
    /\ ver' = NoVer
    /\ accepted' = {}
    /\ UNCHANGED <<secret, now, tokReq>>
    /\ UNCHANGED sessionVars

\* the token loses its separator or gains a third segment
Reshape(extra) ==
    /\ tokKind \in {"issued", "allow"}
    /\ tok' = IF extra THEN tok \o <<Dot, "x">>
              ELSE SelectSeq(tok, LAMBDA s : s # Dot)
    /\ tokKind' = "reshaped"
    /\ ver' = NoVer
    /\ accepted' = {}
    /\ UNCHANGED <<secret, now, tokReq>>
    /\ UNCHANGED sessionVars

Verify(room) ==
    /\ tokKind # "none"
    /\ LET r == verifyAuthToken(tok, room, now, secret)
       IN  /\ ver' = [room |-> room, result |-> r, done |-> TRUE]
           /\ accepted' = IF r # {} THEN accepted \cup {secret} ELSE accepted
    /\ UNCHANGED <<secret, now, tok, tokReq, tokKind>>
    /\ UNCHANGED sessionVars

Tick ==
    /\ now < MaxTime
    /\ now' = now + 1
    /\ ver' = NoVer
    /\ UNCHANGED <<secret, tok, tokReq, tokKind, accepted>>
    /\ UNCHANGED sessionVars

\* the process is restarted with another AUTH_SECRET
RotateSecret(k) ==
    /\ k # secret
    /\ secret' = k
    /\ ver' = NoVer
    /\ UNCHANGED <<now, tok, tokReq, tokKind, accepted>>
    /\ UNCHANGED sessionVars

TokenNext ==
    \/ \E data \in TokenRequests : AuthTokenEndpoint(data)
    \/ \E role \in AllowRoles : TakeAllowListed(role)
    \/ \E i \in 1..6, ch \in SigAlphabet : TamperSignature(i, ch)
    \/ \E extra \in BOOLEAN : Reshape(extra)
    \/ \E room \in RoomNames \cup {NoRoom} : Verify(room)
    \/ Tick
    \/ \E k \in Secrets : RotateSecret(k)

SpecToken == TokenInit /\ [][TokenNext]_vars

---------------------------------------------------------------------------
(* The server with its heartbeat running, its clock advancing, and the     *)
(* idle watcher disabled or set to one tick                                *)

IdleTimeouts == {0, 1}

HeartbeatInit ==
    /\ secret = "k1"
    /\ now = 1
    /\ tok = <<>>
    /\ tokReq = {}
    /\ tokKind = "none"
    /\ ver = NoVer
    /\ accepted = {}
    /\ SessionStart
    /\ frames = MaxFrames
    /\ IDLE_TIMEOUT_MS \in IdleTimeouts

\* upgrade requests that are admitted
AdmittedRequests ==
    {req \in ConnRequests :
        /\ isOriginAllowed(req.origin)
        /\ extractRoom(req) \in {"radio", "chat"}
        /\ extractToken(req) # <<>>
        /\ verifyAuthToken(extractToken(req), extractRoom(req), now, secret) # {}}

HeartbeatNext ==
    \/ \E c \in Conns, req \in AdmittedRequests : Connect(c, req)
    \/ \E c \in Conns : AfterVerifyAuth(c)
    \/ \E c \in Conns : AfterOnJoin(c, TRUE)
    \/ \E c \in Conns : AfterWelcome(c)
    \/ \E c \in Conns : CloseEvent(c)
    \/ \E c \in Conns : LeaveFinish(c)
    \/ \E c \in Conns : socketMessage(c, Frame("object", Obj("KeepAlive", "", "")))
    \/ \E c \in Conns, i \in 1..MaxFrames : AfterValidateMessage(c, i)
    \/ heartbeatTick
    \/ \E c \in Conns : pong(c)
    \/ \E c \in Conns : idleCheck(c)
    \/ Tick

SpecHeartbeat == HeartbeatInit /\ [][HeartbeatNext]_vars

---------------------------------------------------------------------------
(* The HTTP side: every kind of push request, the legacy endpoint          *)
(* included, while clients join and leave the rooms                        *)

AllPushRequests ==
    PushRequests
    \cup { <<"radio", FreshToken("u1", "radio"), b>> : b \in Bodies }

PushNext ==
    \/ \E c \in Conns, req \in AdmittedRequests \cup LobbyRequests : Connect(c, req)
    \/ \E c \in Conns : AfterVerifyAuth(c)
    \/ \E c \in Conns, canJoin \in BOOLEAN : AfterOnJoin(c, canJoin)
    \/ \E c \in Conns : AfterWelcome(c)
    \/ \E c \in Conns : RemoteClose(c)
    \/ \E c \in Conns : CloseEvent(c)
    \/ \E c \in Conns : LeaveFinish(c)
    \/ \E rq \in AllPushRequests : HttpPost(rq[1], rq[2], rq[3])
    \/ \E b \in Bodies : handlePostContentRequest(b)
    \/ AfterValidateHttpPost
    \/ AfterOnHttpPost

SpecPush == Init /\ [][PushNext]_vars

---------------------------------------------------------------------------
(* Room "radio" fed with content: its first client posts MaxPosts messages, *)
(* a push arrives over HTTP, and the heartbeat runs                         *)

HistoryInit ==
    /\ secret = "k1"
    /\ now = MaxTime
    /\ tok = <<>>
    /\ tokReq = {}
    /\ tokKind = "none"
    /\ ver = NoVer
    /\ accepted = {}
    /\ SessionStart
    /\ frames = MaxPosts
    /\ IDLE_TIMEOUT_MS = 0

RadioRequests == {req \in AdmittedRequests : extractRoom(req) = "radio"}

\* the n-th message posted; its text and username fields number it
HistoryFrame(n) ==
    Frame("object", Obj("post", NumStr(n % 10), NumStr((n \div 10) % 10)))

HistoryNext ==
    \/ \E c \in Conns, req \in RadioRequests : Connect(c, req)
    \/ \E c \in Conns : AfterVerifyAuth(c)
    \/ \E c \in Conns : AfterOnJoin(c, TRUE)
    \/ \E c \in Conns : AfterWelcome(c)
    \/ socketMessage(1, HistoryFrame(MaxPosts - frames + 1))
    \/ \E c \in Conns : AfterValidateMessage(c, 1)
    \/ \E c \in Conns : AfterOnMessage(c, 1)
    \/ HttpPost("radio", FreshToken("u1", "radio"),
                Body("post", "2025-10-02T00:00:00Z", "content1"))
    \/ AfterValidateHttpPost
    \/ AfterOnHttpPost
    \/ heartbeatTick
    \/ \E c \in Conns : pong(c)

SpecHistory == HistoryInit /\ [][HistoryNext]_vars

---------------------------------------------------------------------------
(* More messages than the history ever holds, from one client of room     *)
(* "radio" that answers the heartbeat's pings                             *)

AddsInit ==
    /\ secret = "k1"
    /\ now = MaxTime
    /\ tok = <<>>
    /\ tokReq = {}
    /\ tokKind = "none"
    /\ ver = NoVer
    /\ accepted = {}
    /\ SessionStart
    /\ frames = MaxAdds
    /\ IDLE_TIMEOUT_MS = 0

AddsNext ==
    \/ \E req \in RadioRequests : Connect(1, req)
    \/ AfterVerifyAuth(1)
    \/ AfterOnJoin(1, TRUE)
    \/ AfterWelcome(1)
    \/ socketMessage(1, HistoryFrame(MaxAdds - frames + 1))
    \/ AfterValidateMessage(1, 1)
    \/ AfterOnMessage(1, 1)
    \/ heartbeatTick
    \/ pong(1)

SpecAdds == AddsInit /\ [][AddsNext]_vars

---------------------------------------------------------------------------
(* Connections coming and going.  Every promise a handler's hook returns is *)
(* settled in the end and every close event is emitted in the end, so the   *)
(* code after an await and the close event are weakly fair; nothing obliges *)
(* a client to connect or to close.                                         *)

LifecycleNext ==
    \/ \E c \in Conns, req \in AdmittedRequests \cup LobbyRequests : Connect(c, req)
    \/ \E c \in Conns : AfterVerifyAuth(c)
    \/ \E c \in Conns, canJoin \in BOOLEAN : AfterOnJoin(c, canJoin)
    \/ \E c \in Conns : AfterWelcome(c)
    \/ \E c \in Conns : RemoteClose(c)
    \/ \E c \in Conns : CloseEvent(c)
    \/ \E c \in Conns : LeaveFinish(c)

LifecycleFairness ==
    \A c \in Conns :
       /\ WF_vars(AfterVerifyAuth(c))
       /\ WF_vars(\E canJoin \in BOOLEAN : AfterOnJoin(c, canJoin))
       /\ WF_vars(AfterWelcome(c))
       /\ WF_vars(CloseEvent(c))
       /\ WF_vars(LeaveFinish(c))

SpecLifecycle == Init /\ [][LifecycleNext]_vars /\ LifecycleFairness

---------------------------------------------------------------------------
(* Shutdown: connections come and go, the heartbeat runs, and then the    *)
(* process is told to stop.  Continuations, close events and the exit     *)
(* timer happen in the end.                                               *)

ShutdownNext ==
    \/ LifecycleNext
    \/ heartbeatTick
    \/ shutdown
    \/ processExit

SpecShutdown ==
    Init /\ [][ShutdownNext]_vars /\ LifecycleFairness /\ WF_vars(processExit)

---------------------------------------------------------------------------
(* Monitoring: GET /health while clients come, post and go *)

HealthNext ==
    \/ \E c \in Conns, req \in AdmittedRequests \cup LobbyRequests : Connect(c, req)
    \/ \E c \in Conns : AfterVerifyAuth(c)
    \/ \E c \in Conns : AfterOnJoin(c, TRUE)
    \/ \E c \in Conns : AfterWelcome(c)
    \/ \E c \in Conns : RemoteClose(c)
    \/ \E c \in Conns : CloseEvent(c)
    \/ \E c \in Conns : LeaveFinish(c)
    \/ \E c \in Conns : socketMessage(c, Frame("object", Obj("post", "song", "")))
    \/ \E c \in Conns, i \in 1..MaxFrames : AfterValidateMessage(c, i)
    \/ \E c \in Conns, i \in 1..MaxFrames : AfterOnMessage(c, i)
    \/ \E detailed \in BOOLEAN : healthGet(detailed)
    \/ AfterGetRoomStats

SpecHealth == Init /\ [][HealthNext]_vars

---------------------------------------------------------------------------
(* A room served by a discovered handler whose hooks may throw *)

ThrowNext ==
    \/ \E c \in Conns, req \in LobbyRequests : Connect(c, req)
    \/ \E c \in Conns : AfterVerifyAuth(c)
    \/ \E c \in Conns, canJoin \in BOOLEAN : AfterOnJoin(c, canJoin)
    \/ \E c \in Conns : AfterWelcome(c)
    \/ \E c \in Conns : RemoteClose(c)
    \/ \E c \in Conns : CloseEvent(c)
    \/ \E c \in Conns : LeaveFinish(c)
    \/ \E c \in Conns : socketMessage(c, Frame("object", Obj("post", "song", "")))
    \/ \E c \in Conns, i \in 1..MaxFrames : AfterValidateMessage(c, i)
    \/ \E c \in Conns, i \in 1..MaxFrames : AfterOnMessage(c, i)
    \/ \E c \in Conns : ThrowInAdmission(c)
    \/ \E c \in Conns : ThrowInLeave(c)
    \/ \E c \in Conns, i \in 1..MaxFrames : ThrowInMessage(c, i)

SpecThrow == Init /\ [][ThrowNext]_vars

---------------------------------------------------------------------------
(* Room "radio" with sockets whose ws.send may throw *)

SendNext ==
    \/ \E c \in Conns, req \in RadioRequests : Connect(c, req)
    \/ \E c \in Conns : AfterVerifyAuth(c)
    \/ \E c \in Conns : AfterOnJoin(c, TRUE)
    \/ \E c \in Conns : AfterWelcome(c)
    \/ \E c \in Conns : RemoteClose(c)
    \/ \E c \in Conns : CloseEvent(c)
    \/ \E c \in Conns : LeaveFinish(c)
    \/ \E c \in Conns : socketMessage(c, Frame("object", Obj("post", "song", "")))
    \/ \E c \in Conns, i \in 1..MaxFrames : AfterValidateMessage(c, i)
    \/ \E c \in Conns, i \in 1..MaxFrames, failed \in SUBSET Conns :
          AfterOnMessageFailing(c, i, failed)
    \/ HttpPost("radio", FreshToken("u1", "radio"),
                Body("post", "2025-10-02T00:00:00Z", "content1"))
    \/ AfterValidateHttpPost
    \/ \E failed \in SUBSET Conns : AfterOnHttpPostFailing(failed)

SpecSend == Init /\ [][SendNext]_vars

---------------------------------------------------------------------------
(* The heartbeat over sockets whose ping() or terminate() may throw and    *)
(* rooms whose onHeartbeat may throw                                       *)

BeatNext ==
    \/ \E c \in Conns, req \in AdmittedRequests \cup LobbyRequests : Connect(c, req)
    \/ \E c \in Conns : AfterVerifyAuth(c)
    \/ \E c \in Conns : AfterOnJoin(c, TRUE)
    \/ \E c \in Conns : AfterWelcome(c)
    \/ \E c \in Conns : CloseEvent(c)
    \/ \E c \in Conns : LeaveFinish(c)
    \/ \E c \in Conns : pong(c)
    \/ \E pingFails \in SUBSET Conns, terminateFails \in SUBSET Conns,
          hookThrows \in SUBSET RoomNames :
          heartbeatTickFailing(pingFails, terminateFails, hookThrows)

SpecBeat == Init /\ [][BeatNext]_vars

---------------------------------------------------------------------------
(* The heartbeat and peers that answer its pings, also during admission *)

PongNext ==
    \/ \E c \in Conns, req \in AdmittedRequests \cup LobbyRequests : Connect(c, req)
    \/ \E c \in Conns : AfterVerifyAuth(c)
    \/ \E c \in Conns : AfterOnJoin(c, TRUE)
    \/ \E c \in Conns : AfterWelcome(c)
    \/ \E c \in Conns : CloseEvent(c)
    \/ \E c \in Conns : LeaveFinish(c)
    \/ \E c \in Conns : pong(c)
    \/ \E c \in Conns : pongUnheard(c)
    \/ heartbeatTick

SpecPong == Init /\ [][PongNext]_vars

---------------------------------------------------------------------------
(* Two frames of any kind from the first client of a room *)

FramesNext ==
    \/ \E c \in Conns, req \in AdmittedRequests \cup LobbyRequests : Connect(c, req)
    \/ \E c \in Conns : AfterVerifyAuth(c)
    \/ \E c \in Conns : AfterOnJoin(c, TRUE)
    \/ \E c \in Conns : AfterWelcome(c)
    \/ \E f \in Frames : socketMessage(1, f)
    \/ \E c \in Conns, i \in 1..MaxBurst : AfterValidateMessage(c, i)
    \/ \E c \in Conns, i \in 1..MaxBurst : AfterOnMessage(c, i)

SpecFrames == BurstInit /\ [][FramesNext]_vars

---------------------------------------------------------------------------
(* Messages to a room whose handler is discovered at start-up *)

DiscoveredResults == UNION {discoveredOnMessage(f.data) : f \in Frames}

ResultsNext ==
    \/ \E c \in Conns, req \in AdmittedRequests \cup LobbyRequests : Connect(c, req)
    \/ \E c \in Conns : AfterVerifyAuth(c)
    \/ \E c \in Conns : AfterOnJoin(c, TRUE)
    \/ \E c \in Conns : AfterWelcome(c)
    \/ \E f \in Frames : f.shape = "object" /\ socketMessage(1, f)
    \/ \E c \in Conns, i \in 1..MaxBurst : AfterValidateMessage(c, i)
    \/ \E c \in Conns, i \in 1..MaxBurst, res \in DiscoveredResults :
          AfterValidateMessageDiscovered(c, i, res)
    \/ \E c \in Conns, i \in 1..MaxBurst : AfterOnMessage(c, i)

SpecResults == BurstInit /\ [][ResultsNext]_vars



---------------------------------------------------------------------------
(* Rooms and fan-out *)

Member(c) == \E s \in Conns : c \in members[s]

\* the members of the Set registered under a room name
MembersOf(roomName) ==
    IF RoomSet(roomName) = 0 THEN {} ELSE members[RoomSet(roomName)]

Received(c) == inbox'[c] # inbox[c]

Newest(c) == inbox'[c][Len(inbox'[c])]

IsFanout(m) == m.kind \in {"broadcast", "push"}

\* C1 Room isolation: whenever a message broadcast into room A (by a member's
\* frame or by an HTTP push addressed to A) is written to a socket, that
\* socket is in A's member set, A is the room it joined, and it is in the
\* member set of no other room.
C1_RoomIsolation ==
    [][\A c \in Conns :
          (Received(c) /\ IsFanout(Newest(c))) =>
              /\ c \in MembersOf(Newest(c).via)
              /\ currentRoom[c] = Newest(c).via
              /\ \A B \in RoomNames \ {Newest(c).via} : c \notin MembersOf(B)]_vars

\* a push into one room has reached its member while the other connection is
\* an open member of another room and has received no broadcast
C1_Witness ==
    \E c, d \in Conns :
        /\ push.stage = "done" /\ push.sent = {c}
        /\ \E k \in 1..Len(inbox[c]) : inbox[c][k].kind = "push"
        /\ pc[d] = "active" /\ readyState[d] = "OPEN"
        /\ d \in MembersOf(currentRoom[d])
        /\ currentRoom[d] # push.room
        /\ \A k \in 1..Len(inbox[d]) : ~IsFanout(inbox[d][k])

\* the step in which the message handler of c, past handler.onMessage,
\* broadcasts its i-th suspended message
Broadcasts(c, i) ==
    /\ i \in 1..Len(inflight[c])
    /\ inflight[c][i].stage = "onMessage"
    /\ inflight[c][i].result.kind # "false"
    /\ inflight'[c] = RemoveAt(inflight[c], i)

Envelope(c, i) ==
    Msg("broadcast", currentRoom[c], c,
        IF inflight[c][i].result.kind = "null" THEN inflight[c][i].payload
        ELSE inflight[c][i].result.data)

\* C2 Sender exclusion: when a member's message is broadcast, nothing is
\* written to the sender and the envelope is written to every other open
\* member of the sender's room; no socket ever receives a broadcast envelope
\* of its own message.
C2_SenderExclusion ==
    [][\A c \in Conns :
          /\ (Received(c) /\ Newest(c).kind = "broadcast") => Newest(c).from # c
          /\ \A i \in 1..MaxFrames :
                Broadcasts(c, i) =>
                    /\ inbox'[c] = inbox[c]
                    /\ \A d \in MembersOf(currentRoom[c]) \ {c} :
                          readyState[d] = "OPEN" =>
                              inbox'[d] = Append(inbox[d], Envelope(c, i))]_vars

\* a member has received the envelope of another member's message, and the
\* sender has received no broadcast
C2_Witness ==
    \E c, d \in Conns :
        /\ c # d
        /\ \E k \in 1..Len(inbox[d]) :
              inbox[d][k].kind = "broadcast" /\ inbox[d][k].from = c
        /\ \A k \in 1..Len(inbox[c]) : inbox[c][k].kind # "broadcast"

\* the step in which handlePost, past handler.onHttpPost, broadcasts
PushBroadcasts == push.stage = "onHttpPost" /\ push'.stage = "done"

\* C3 Fanout completeness: broadcastToRoom(room, msg, null) on a room whose
\* N members are all OPEN writes the message once to each of them and returns
\* N; for a room name the registry does not hold it writes nothing and
\* returns 0.
C3_FanoutCompleteness ==
    [][PushBroadcasts =>
          /\ (/\ RoomSet(push.room) # 0
              /\ \A c \in MembersOf(push.room) : readyState[c] = "OPEN")
             => /\ push'.delivered = Cardinality(MembersOf(push.room))
                /\ \A c \in Conns :
                      inbox'[c] = IF c \in MembersOf(push.room)
                                  THEN Append(inbox[c],
                                              Msg("push", push.room, 0, push.payload))
                                  ELSE inbox[c]
          /\ RoomSet(push.room) = 0
             => /\ push'.delivered = 0
                /\ inbox' = inbox]_vars

\* a push was answered with a count of two, both members holding the message
C3_Witness ==
    /\ push.stage = "done"
    /\ push.status = 200
    /\ push.delivered = 2
    /\ \A c \in push.sent :
          \E k \in 1..Len(inbox[c]) : inbox[c][k] = Msg("push", push.room, 0, push.payload)

---------------------------------------------------------------------------
(* Admission *)

SignedAndFresh(token) == verifyAuthToken(token, NoRoom, now, secret) # {}

\* C5 Wrong-room rejection code: a connection attempt to room R with a
\* correctly signed, unexpired token whose claim names another room is closed
\* with WRONG_ROOM (4004), not with the invalid-token code.
C5_WrongRoomCode ==
    [][\A c \in Conns, req \in ConnRequests :
          (/\ pc[c] = "new" /\ pc'[c] # "new"
           /\ Connect(c, req)
           /\ isOriginAllowed(req.origin)
           /\ extractRoom(req) # NoRoom
           /\ SignedAndFresh(extractToken(req))
           /\ \A p \in verifyAuthToken(extractToken(req), NoRoom, now, secret) :
                 p.room # extractRoom(req))
          => /\ pc'[c] # "active"
             /\ closeCode'[c] = WRONG_ROOM
             /\ closeCode'[c] # INVALID_TOKEN]_vars

\* the eight conditions the server closes a socket for
CloseConditions ==
    {"noRoom", "invalidToken", "wrongRoom", "rejectedByRoom", "idle", "maxAge",
     "shutdown", "origin"}

\* the code the server gives to socket.close for each of them
CloseCodeOf(cond) ==
    CASE cond = "noRoom" -> NO_ROOM_SPECIFIED
      [] cond = "invalidToken" -> INVALID_TOKEN
      [] cond = "wrongRoom" -> WRONG_ROOM
      [] cond = "rejectedByRoom" -> REJECTED_BY_ROOM
      [] cond = "idle" -> IDLE_TIMEOUT
      [] cond = "maxAge" -> MAX_CONN_AGE
      [] cond = "shutdown" -> SERVER_SHUTTING_DOWN
      [] cond = "origin" -> ORIGIN_NOT_ALLOWED

\* C6 Close-code distinctness: the code a socket was closed with for one of
\* the eight conditions is the code of no other of them, so the code alone
\* tells the condition.
C6_CloseCodesDistinct ==
    \A c \in Conns :
        closeCond[c] \in CloseConditions =>
            /\ closeCode[c] = CloseCodeOf(closeCond[c])
            /\ \A other \in CloseConditions \ {closeCond[c]} :
                  CloseCodeOf(other) # closeCode[c]

---------------------------------------------------------------------------
(* Tokens *)

AnyRoom == RoomNames \cup {NoRoom}

\* tok is payload "." HMAC(secret, payload) for a decodable payload
CorrectlySigned ==
    LET parts == Split(tok)
    IN  /\ Len(parts) = 2
        /\ parts[2] = Hmac(secret, parts[1])
        /\ CanDecode(parts[1])

ClaimOfTok == DecodePayload(Split(tok)[1])

\* C7 Token authenticity: a token outside the allow-list verifies only if it
\* has exactly two segments and its second segment is HMAC(secret, first
\* segment); a token whose signature had one character changed never verifies.
C7_TokenAuthenticity ==
    ver.done =>
        /\ (tok \notin AllowListed /\ ver.result # {}) =>
               LET parts == Split(tok)
               IN  Len(parts) = 2 /\ parts[2] = Hmac(secret, parts[1])
        /\ tokKind = "tampered" => ver.result = {}

\* a tampered token was refused although its payload, signed properly, would
\* verify for the same room at the same time
C7_Witness ==
    /\ ver.done
    /\ tokKind = "tampered"
    /\ ver.result = {}
    /\ LET parts == Split(tok)
       IN  /\ Len(parts) = 2
           /\ parts[2] # Hmac(secret, parts[1])
           /\ verifyAuthToken(parts[1] \o <<Dot>> \o Hmac(secret, parts[1]),
                              ver.room, now, secret) # {}

\* C8 Token expiry boundary: a correctly signed token with expiresAt = E is
\* refused at every time now >= E, now = E included, and yields its claim at
\* now < E when the room matches.
C8_ExpiryBoundary ==
    (ver.done /\ tokKind = "issued" /\ CorrectlySigned) =>
        /\ now >= ClaimOfTok.expiresAt => ver.result = {}
        /\ (now < ClaimOfTok.expiresAt /\ ver.room = ClaimOfTok.room)
               => ver.result = {ClaimOfTok}

\* C9 Token round trip: the token issued for (clientId, room, ttl, metadata),
\* verified at once against the same room, yields a claim with the same
\* clientId, room and metadata and with expiresAt = issuedAt + ttl.
C9_RoundTrip ==
    \A req \in tokReq :
        (ver.done /\ tokKind = "issued" /\ CorrectlySigned
            /\ now = req.issuedAt /\ ver.room = req.room) =>
            /\ ver.result # {}
            /\ \A c \in ver.result :
                   /\ c.clientId = req.clientId
                   /\ c.room = req.room
                   /\ c.metadata = req.metadata
                   /\ c.expiresAt = c.issuedAt + req.expiresIn

IsPrefix(a, b) == Len(a) <= Len(b) /\ SubSeq(b, 1, Len(a)) = a

\* tok is not a hard-coded credential but resembles one: it extends one, is
\* one without its separator, or carries one's payload segment
NearAllowListed ==
    /\ tok \notin AllowListed
    /\ \E role \in AllowRoles :
          \/ IsPrefix(AlwaysValidToken(role), tok)
          \/ tok = SelectSeq(AlwaysValidToken(role), LAMBDA s : s # Dot)
          \/ /\ Len(Split(tok)) >= 1
             /\ Split(tok)[1] = EncodePayload(AlwaysValidPayload(role))

\* C11 Allow-list bypass is room-bound: a token equal to a hard-coded
\* credential yields that credential's payload, under every secret and at
\* every time (its own expiresAt passed included), exactly when no room is
\* expected or the expected room is the credential's room "radio", and null
\* for any other room; a token that only resembles a credential is refused.
C11_AllowListRoomBound ==
    ver.done =>
        /\ tok \in AllowListed =>
              LET p == AlwaysValidPayload(
                           CHOOSE r \in AllowRoles : AlwaysValidToken(r) = tok)
              IN  /\ ver.result = IF ver.room \in {NoRoom, p.room} THEN {p} ELSE {}
                  /\ p.room = "radio"
                  /\ \A t \in 0..(FarFuture + 1), k \in Secrets :
                        verifyAuthToken(tok, ver.room, t, k) = ver.result
        /\ NearAllowListed => ver.result = {}

\* a hard-coded credential that was accepted has then been refused for a
\* room other than its own
C11_Witness ==
    /\ tokKind = "allow"
    /\ accepted # {}
    /\ ver.done
    /\ ver.room \notin {NoRoom, "radio"}
    /\ ver.result = {}

---------------------------------------------------------------------------
(* Claims: leaving *)

\* leaveRoom returns for connection c in this step
LeaveDone(c) == pc[c] = "onLeave" /\ pc'[c] = "left"

\* C12 Empty-room pruning: when leaveRoom returns for a connection and no
\* connection is left in the room it was in (none is in a member Set of
\* that room, none is still inside leaveRoom for it), the room name is not
\* a key of the registry any more, in whatever order the members closed.
C12_EmptyRoomPruned ==
    [][\A c \in Conns :
          LeaveDone(c) =>
              ((\A d \in Conns :
                   /\ ~(currentRoom'[d] = currentRoom[c] /\ Member(d)')
                   /\ ~(currentRoom'[d] = currentRoom[c] /\ pc'[d] = "onLeave"))
               => rooms'[currentRoom[c]] = 0)]_vars

\* two members of one room have both left, the one that closed with the
\* shutdown after the one that was closed by its peer, and the room is gone
C12_Witness ==
    /\ \A c \in Conns : pc[c] = "left" /\ roomOf[c] = "lobby"
    /\ closeCond[1] = "shutdown" /\ closeCond[2] = "remote"
    /\ rooms["lobby"] = 0


\* joinRoom has returned true for connection c
Admitted(c) == pc[c] \in {"welcome", "active", "onLeave", "left"}

\* C13 Leave hook exactly once: onLeave is never called twice for a
\* connection, never called for a connection that was not admitted into a
\* room, and has been called once for every admitted connection whose
\* socket is closed, whatever closed it.
C13_LeaveHookOnce ==
    \A c \in Conns :
        /\ onLeaveCalls[c] <= 1
        /\ ~Admitted(c) => onLeaveCalls[c] = 0
        /\ (Admitted(c) /\ readyState[c] = "CLOSED") => onLeaveCalls[c] = 1


---------------------------------------------------------------------------
(* Claims: inbound messages *)

\* message m is the broadcast of a message with this text sent by connection c
BroadcastOf(m, c, text) == m.kind = "broadcast" /\ m.from = c /\ m.data.text = text

\* C14 Per-connection FIFO: connection 1 sends the messages of BurstFrames
\* in their order; no member receives the broadcast of a later one before
\* the broadcast of an earlier one.
C14_PerConnectionFifo ==
    \A d \in Conns : \A i, j \in 1..Len(inbox[d]) :
        \A a, b \in 1..MaxBurst :
            (/\ BroadcastOf(inbox[d][i], 1, BurstFrames[a].data.text)
             /\ BroadcastOf(inbox[d][j], 1, BurstFrames[b].data.text)
             /\ a < b)
            => i < j


\* the message handler of connection c resumes in this step after a
\* validateMessage that returned the error text
Rejects(c, text) ==
    \E i \in 1..Len(inflight[c]) :
        /\ inflight[c][i].stage = "validateMessage"
        /\ inflight[c][i].verr = text
        /\ inflight'[c] = RemoveAt(inflight[c], i)

ValidationErrors ==
    {"Username required", "Chat message must have a text field",
     "Message contains inappropriate content", "Message too long"}

\* C19 Validation rejection is local: when validateMessage rejects a
\* message, the sender gets one error message carrying the handler's text,
\* no other socket gets anything, no handler state changes (onMessage is not
\* called), and the registry and the sender's room and socket stay as they
\* were, the sender being a member of its room.
C19_RejectionIsLocal ==
    [][\A c \in Conns, text \in ValidationErrors :
          Rejects(c, text) =>
              /\ inbox'[c] = Append(inbox[c], ErrorMsg(text))
              /\ \A d \in Conns \ {c} : inbox'[d] = inbox[d]
              /\ handlerVars' = handlerVars
              /\ registryVars' = registryVars
              /\ currentRoom'[c] = currentRoom[c]
              /\ readyState'[c] = "OPEN"
              /\ c \in MembersOf(currentRoom[c])']_vars

\* a chat member without a username sent a chat message and got the error,
\* the other chat member got nothing beyond its welcome, and no message was
\* counted
C19_Witness ==
    \E c, d \in Conns :
        /\ c # d
        /\ currentRoom[c] = "chat" /\ currentRoom[d] = "chat"
        /\ pc[c] = "active" /\ pc[d] = "active"
        /\ Len(inbox[c]) = 2
        /\ inbox[c][2] = ErrorMsg("Username required")
        /\ Len(inbox[d]) = 1
        /\ inflight[c] = <<>>
        /\ chatCount = 0
        /\ c \in MembersOf("chat")

\* C20 Non-object frames rejected: a frame whose JSON value is a scalar,
\* null or an array is answered with the error "Payload must be a JSON
\* object" to its sender, is not handed to the room handler and reaches no
\* other socket.
C20_NonObjectRejected ==
    [][\A c \in Conns, f \in Frames :
          (/\ frames' = frames - 1
           /\ f.shape \in {"scalar", "null", "array"}
           /\ socketMessage(c, f))
          => /\ inbox'[c] = Append(inbox[c], ErrorMsg("Payload must be a JSON object"))
             /\ \A d \in Conns \ {c} : inbox'[d] = inbox[d]
             /\ inflight' = inflight]_vars

---------------------------------------------------------------------------
(* Claims: heartbeat *)

\* a heartbeat tick is taken in this step
Beat == beats' = beats + 1

\* C15 Liveness-probe termination: on every heartbeat tick, a socket that
\* has been through no tick since it was accepted or since its last pong is
\* marked and left open, and a socket that has been through one is
\* terminated, so that no open socket has been through two; the idle
\* timeout, enabled or not, and the activity time play no part.
C15_SecondTickTerminates ==
    [][Beat =>
          \A ws \in wssClients :
              /\ silentTicks[ws] = 0 =>
                    /\ readyState'[ws] = readyState[ws]
                    /\ closeCond'[ws] = closeCond[ws]
                    /\ isAlive'[ws] = FALSE
              /\ silentTicks[ws] >= 1 =>
                    /\ readyState'[ws] = "CLOSING"
                    /\ readyState[ws] = "OPEN" => closeCond'[ws] = "heartbeat"
              /\ readyState[ws] = "OPEN" => silentTicks[ws] <= 1]_vars

\* with the idle watcher enabled, a member that sent a message after the
\* first tick and never answered a ping was terminated by the second tick
C15_Witness ==
    \E ws \in Conns :
        /\ closeCond[ws] = "heartbeat"
        /\ silentTicks[ws] = 2
        /\ beats = 2
        /\ IDLE_TIMEOUT_MS > 0
        /\ lastActivity[ws] = now
        /\ now = MaxTime
        /\ frames = 0


---------------------------------------------------------------------------
(* Claims: HTTP push *)

\* the bearer token is one verifyAuthToken accepts for the room
AcceptedFor(token, roomName) ==
    token # <<>> /\ verifyAuthToken(token, roomName, now, secret) # {}

\* an HTTP request is taken in this step
HttpRequest == pushes' = pushes + 1

Malformed(body) ==
    \/ body.type \in {"", NotAString}
    \/ body.timestamp \in {"", NotAString, "yesterday-ish"}
    \/ body.data \in {"", "null", "array", "scalar"}

OpenMembers(R) == {c \in MembersOf(R) : readyState[c] = "OPEN"}

\* the request body as handlePost broadcasts it: RadioHandler.onHttpPost
\* replaces it by a copy with room and contentType added
ExpectedPayload(R, body) ==
    IF R = "radio"
    THEN [type |-> body.type, text |-> body.data, username |-> "",
          room |-> "radio", by |-> "radio"]
    ELSE [type |-> body.type, text |-> body.data, username |-> "",
          room |-> "", by |-> ""]

\* C18 HTTP push success: when an accepted push to room R is broadcast,
\* every open member of R's member set, and no other socket, gets one push
\* message whose data is the request body as replaced by onHttpPost; the
\* response is 200, its delivered count is the number of sockets written
\* to, and its echo is the data of the message.
C18_PushSuccess ==
    [][PushBroadcasts =>
          /\ AcceptedFor(push.token, push.room)
          /\ ~Malformed(push.body)
          /\ push'.status = 200
          /\ push'.payload = ExpectedPayload(push.room, push.body)
          /\ push'.delivered = Cardinality(OpenMembers(push.room))
          /\ push'.sent = OpenMembers(push.room)
          /\ \A c \in Conns :
                inbox'[c] = IF c \in OpenMembers(push.room)
                            THEN Append(inbox[c],
                                        Msg("push", push.room, 0, push'.payload))
                            ELSE inbox[c]]_vars

\* a push to room "radio" was answered with a count of one: it went to the
\* open member and not to the member whose socket was closing
C18_Witness ==
    /\ push.stage = "done"
    /\ push.status = 200
    /\ push.room = "radio"
    /\ push.delivered = 1
    /\ \E c, d \in MembersOf("radio") :
          /\ push.sent = {c}
          /\ inbox[c][Len(inbox[c])] = Msg("push", "radio", 0, push.payload)
          /\ readyState[d] = "CLOSING"
          /\ \A k \in 1..Len(inbox[d]) : inbox[d][k].kind # "push"

---------------------------------------------------------------------------
(* Claims: chat *)

\* the invocation i of c's message listener took a setUsername message with a
\* name from a chat member that has none, and awaits validateMessage
AwaitsSetUsername(c, i) ==
    /\ i \in 1..Len(inflight[c])
    /\ inflight[c][i].stage = "validateMessage"
    /\ inflight[c][i].handler = "ChatHandler"
    /\ inflight[c][i].payload.type = "setUsername"
    /\ inflight[c][i].payload.username # ""
    /\ chatUsername[c] = ""

\* C22 Chat username flow is reachable: when an admitted chat client without
\* a username sends {type: "setUsername", username: u} with a non-empty u,
\* the session's processing of that message sets its username to u.
C22_SetUsernameTakesEffect ==
    [][\A c \in Conns : \A i \in 1..MaxFrames :
          (AwaitsSetUsername(c, i) /\ AfterValidateMessage(c, i))
          => chatUsername'[c] = inflight[c][i].payload.username]_vars

---------------------------------------------------------------------------
(* Claims: radio history *)

\* C23 Radio history holds the last 10 items: whatever messages, pushes and
\* heartbeat ticks room "radio" has seen, contentHistory has at most
\* maxHistorySize entries.
C23_HistoryBounded == Len(contentHistory) <= maxHistorySize

---------------------------------------------------------------------------
(* Claims: the registry under interleaving *)

\* C24 Registry/membership consistency: every open connection whose
\* currentRoom is r is an element of the Set stored in the registry under r.
C24_MembersAreRegistered ==
    \A c \in Conns :
       (readyState[c] = "OPEN" /\ currentRoom[c] # NoRoom)
       => c \in MembersOf(currentRoom[c])

\* C25 Closed connections do not linger: a closed socket that is in a member
\* set is removed from it in the end, also when it closed while its admission
\* was suspended.
C25_ClosedSocketsLeave ==
    \A c \in Conns : (readyState[c] = "CLOSED" /\ Member(c)) ~> ~Member(c)

\* the step in which the connection handler refuses c
Refused(c) == pc[c] # "rejected" /\ pc'[c] = "rejected"

\* no other connection is joining, in or leaving the room c asked for
AloneInRoom(c) ==
    \A d \in Conns \ {c} :
       roomOf[d] # roomOf[c] \/ pc[d] \in {"new", "rejected", "left"}

\* C26 A refused connection attempt leaves the registry unchanged: when an
\* attempt is refused at any stage, no member set has changed, and if nobody
\* else is using the requested room the registry has no entry for it.
C26_RefusalLeavesNoTrace ==
    [][\A c \in Conns :
          Refused(c) =>
             /\ members' = members
             /\ AloneInRoom(c) => RoomSet(roomOf[c])' = 0]_vars

---------------------------------------------------------------------------
(* Claims: hooks that throw *)

\* C21 Message-hook exceptions are contained: when validateMessage or
\* onMessage throws for a message of connection c, c is sent a generic error
\* message, no other socket is sent anything, c remains a member of its room
\* and the process keeps running.
C21_MessageHookThrowContained ==
    [][\A c \in Conns : \A i \in 1..MaxFrames :
          ThrowInMessage(c, i) =>
             /\ ~exited'
             /\ Len(inbox'[c]) = Len(inbox[c]) + 1
             /\ inbox'[c][Len(inbox'[c])].kind = "error"
             /\ \A d \in Conns \ {c} : inbox'[d] = inbox[d]
             /\ c \in MembersOf(currentRoom[c])']_vars

\* C27 Join/leave hook exceptions do not corrupt the registry: when onLeave
\* throws for a leaving connection, the connection is in no member set, its
\* currentRoom is cleared and the entry of a room left empty is deleted; when
\* onJoin throws, the connection is in no member set and no empty entry is
\* left for the room it asked for.
C27_JoinLeaveThrowKeepsRegistry ==
    [][\A c \in Conns :
          /\ ThrowInLeave(c) =>
                /\ ~Member(c)'
                /\ currentRoom'[c] = NoRoom
                /\ members'[localRoom[c]] = {} => RoomSet(currentRoom[c])' = 0
          /\ (pc[c] = "onJoin" /\ ThrowInAdmission(c)) =>
                /\ ~Member(c)'
                /\ AloneInRoom(c) => RoomSet(roomOf[c])' = 0]_vars

---------------------------------------------------------------------------
(* Claims: writes that fail *)

\* C28 Delivered count counts successes: the count broadcastToRoom returns,
\* which the push response carries, is the number of sockets the message was
\* written to.
C28_DeliveredCountsSuccesses ==
    [][\A failed \in SUBSET Conns :
          AfterOnHttpPostFailing(failed) =>
             push'.delivered = Cardinality({c \in Conns : Received(c)})]_vars

\* C29 Best-effort fan-out: when the write to some members fails during a
\* broadcast, every other open member that is not excluded still gets the
\* message, and the caller goes on as after a broadcast without failures:
\* the push is answered with 200, the message listener returns, the process
\* keeps running.
C29_BestEffortFanout ==
    [][\A failed \in SUBSET Conns :
          /\ AfterOnHttpPostFailing(failed) =>
                /\ \A c \in broadcastRecipients(push.room, 0) \ failed :
                      /\ Received(c)
                      /\ Newest(c) = Msg("push", push.room, 0, push.payload)
                /\ push'.stage = "done" /\ push'.status = 200
                /\ ~exited'
          /\ \A c \in Conns : \A i \in 1..MaxFrames :
                AfterOnMessageFailing(c, i, failed) =>
                   /\ \A d \in broadcastRecipients(currentRoom[c], c) \ failed :
                         /\ Received(d)
                         /\ Newest(d).kind = "broadcast" /\ Newest(d).from = c
                   /\ Len(inflight'[c]) = Len(inflight[c]) - 1
                   /\ ~exited']_vars

\* a push was sent to both members of room "radio", both open; the write to
\* one of them failed, the other has the message, and the answer was 200
C29_Witness ==
    /\ push.stage = "done" /\ push.status = 200 /\ push.sent = Conns
    /\ \A c \in Conns : readyState[c] = "OPEN" /\ c \in MembersOf("radio")
    /\ \E c, d \in Conns :
          /\ \E k \in 1..Len(inbox[c]) : inbox[c][k].kind = "push"
          /\ \A k \in 1..Len(inbox[d]) : inbox[d][k].kind # "push"

---------------------------------------------------------------------------
(* Claims: the heartbeat under failures *)

\* C30 Heartbeat tick isolation: on every tick, whatever ping, terminate or
\* onHeartbeat call fails, onHeartbeat is called for exactly the registered
\* rooms that have a member, every other connection is probed (terminated if
\* it has not answered the last ping, marked otherwise), and the process
\* keeps running, so that later ticks take place.
C30_HeartbeatTickIsolation ==
    [][\A pingFails \in SUBSET Conns, terminateFails \in SUBSET Conns,
         hookThrows \in SUBSET RoomNames :
          heartbeatTickFailing(pingFails, terminateFails, hookThrows) =>
             /\ beatRooms' = {r \in RoomNames : MembersOf(r) # {}}
             /\ \A ws \in wssClients \ terminateFails :
                   IF isAlive[ws] = FALSE THEN readyState'[ws] = "CLOSING"
                   ELSE isAlive'[ws] = FALSE
             /\ ~exited']_vars

---------------------------------------------------------------------------
(* Claims: frames and handler results *)

\* connection c has been sent the error for a text frame that is not JSON
ToldInvalidJson(c) ==
    \E k \in 1..Len(inbox[c]) : inbox[c][k] = ErrorMsg("Invalid JSON payload")

\* C31 A bad frame never drops the connection: when a member sends a binary
\* frame, text that is not JSON or a JSON value that is not an object, or
\* its handler rejects its message, its socket stays open with its message
\* listener, and it stays in the member set it was in; and a JSON object it
\* sends after an unparsable frame is handed to its room handler.
C31_BadFrameKeepsConnection ==
    [][\A c \in Conns :
          /\ (\/ \E f \in Frames : f.shape # "object" /\ socketMessage(c, f)
              \/ \E text \in ValidationErrors : Rejects(c, text))
             => /\ readyState'[c] = "OPEN"
                /\ pc'[c] = "active"
                /\ registryVars' = registryVars
                /\ currentRoom'[c] = currentRoom[c]
          /\ \A f \in Frames :
                (f.shape = "object" /\ ToldInvalidJson(c) /\ socketMessage(c, f))
                => /\ Len(inflight'[c]) = Len(inflight[c]) + 1
                   /\ inflight'[c][Len(inflight'[c])].payload = f.data]_vars

\* a radio member was told that a frame of its was not JSON, and the message
\* it sent next has been broadcast to the other member
C31_Witness ==
    /\ frames = 0
    /\ ToldInvalidJson(1)
    /\ readyState[1] = "OPEN" /\ 1 \in MembersOf("radio")
    /\ \E k \in 1..Len(inbox[2]) : BroadcastOf(inbox[2][k], 1, "song")

\* the message of c that leaves its onMessage hook in this step
Handled(c, i) ==
    /\ i \in 1..Len(inflight[c])
    /\ inflight[c][i].stage = "onMessage"
    /\ inflight'[c] = RemoveAt(inflight[c], i)

\* the other members of the room of c whose sockets are open
Peers(c) == {d \in MembersOf(currentRoom[c]) \ {c} : readyState[d] = "OPEN"}

\* C32 Handler result semantics: when onMessage returned false nobody, the
\* sender included, receives anything; when it returned null the other
\* members receive the broadcast envelope with the sender's payload as its
\* data; when it returned an object they receive the envelope with that
\* object as its data; the sender and the sockets outside the room receive
\* nothing.
C32_HandlerResultSemantics ==
    [][\A c \in Conns, i \in 1..MaxBurst :
          Handled(c, i) =>
            LET e == inflight[c][i]
                data == IF e.result.kind = "object" THEN e.result.data ELSE e.payload
            IN  /\ e.result.kind = "false" => inbox' = inbox
                /\ e.result.kind \in {"null", "object"} =>
                      /\ \A d \in Peers(c) :
                            inbox'[d] = Append(inbox[d],
                                               Msg("broadcast", currentRoom[c], c, data))
                      /\ \A d \in Conns \ Peers(c) : inbox'[d] = inbox[d]]_vars

\* a member of room "lobby" holds, after its welcome, a broadcast whose data
\* the discovered handler made and then one that carries the sender's payload
C32_Witness ==
    /\ frames = 0 /\ inflight[1] = <<>>
    /\ 2 \in MembersOf("lobby") /\ currentRoom[1] = "lobby"
    /\ Len(inbox[2]) = 3
    /\ inbox[2][2].kind = "broadcast" /\ inbox[2][2].data.by = "discovered"
    /\ inbox[2][3].kind = "broadcast" /\ inbox[2][3].data.by # "discovered"

---------------------------------------------------------------------------
(* Claims: one room per connection *)

\* the Sets that hold connection c
SetsOf(c) == {s \in DOMAIN members : c \in members[s]}

\* C33 One room per connection: a connection is in at most one member set;
\* the step that adds it to a Set makes the room it asked for its
\* currentRoom; from then on it is never put into another Set, and its
\* currentRoom stays that room until leaveRoom clears it.
C33_OneRoomPerConnection ==
    [][\A c \in Conns :
          /\ Cardinality({s \in DOMAIN members' : c \in members'[s]}) <= 1
          /\ (SetsOf(c) = {} /\ \E s \in DOMAIN members' : c \in members'[s])
             => currentRoom'[c] = roomOf[c] /\ roomOf[c] # NoRoom
          /\ \A s \in SetsOf(c), t \in DOMAIN members' :
                c \in members'[t] => t = s
          /\ currentRoom[c] # NoRoom
             => currentRoom'[c] \in {currentRoom[c], NoRoom}
          /\ (currentRoom[c] # NoRoom /\ currentRoom'[c] = NoRoom)
             => pc'[c] = "left"]_vars

\* the first connection has left its room and the second is an active member
\* of room "radio"
C33_Witness ==
    /\ currentRoom[2] = "radio" /\ 2 \in MembersOf("radio")
    /\ pc[2] = "active"
    /\ pc[1] = "left" /\ currentRoom[1] = NoRoom /\ ~Member(1)

---------------------------------------------------------------------------
(* Claims: the idle watcher *)

\* C34 Idle timeout: with IDLE_TIMEOUT_MS > 0 an idle check of an open socket
\* whose last activity (message or pong) is more than IDLE_TIMEOUT_MS old
\* closes it with code 4000; no socket gets close code 4000 while its last
\* activity is at most IDLE_TIMEOUT_MS old; with IDLE_TIMEOUT_MS = 0 no idle
\* check is ever armed and no socket gets code 4000.
C34_IdleTimeout ==
    [][\A c \in Conns :
          /\ (/\ idleCheck(c)
              /\ readyState[c] = "OPEN"
              /\ now - lastActivity[c] > IDLE_TIMEOUT_MS)
             => /\ readyState'[c] = "CLOSING"
                /\ closeCode'[c] = IDLE_TIMEOUT
          /\ (closeCode'[c] = IDLE_TIMEOUT /\ closeCode[c] # IDLE_TIMEOUT)
             => /\ IDLE_TIMEOUT_MS > 0
                /\ now - lastActivity[c] > IDLE_TIMEOUT_MS
          /\ IDLE_TIMEOUT_MS = 0 => ~idleTimer'[c]]_vars

\* with a timeout of one unit the first connection has been closed for
\* idleness, while the second, active with its last activity one unit old,
\* is open after an idle check that re-armed its timer
C34_Witness ==
    /\ IDLE_TIMEOUT_MS = 1
    /\ closeCode[1] = IDLE_TIMEOUT /\ closeCond[1] = "idle"
    /\ pc[2] = "active" /\ readyState[2] = "OPEN" /\ idleTimer[2]
    /\ now - lastActivity[2] = IDLE_TIMEOUT_MS

---------------------------------------------------------------------------
(* Claims: shutdown *)

\* every connection whose close has completed is in no member set
ClosedHaveLeft == \A c \in Conns : readyState[c] = "CLOSED" => ~Member(c)

\* after shutdown() no heartbeat tick runs
C35_HeartbeatStopped == [][down => beats' = beats]_vars

\* shutdown() closes every open socket with 4002
C35_AllSentClose ==
    [][(~down /\ down')
       => \A c \in Conns :
             readyState[c] = "OPEN"
             => readyState'[c] = "CLOSING" /\ closeCode'[c] = SERVER_SHUTTING_DOWN]_vars

\* after shutdown() the process exits
C35_ProcessExits == down ~> exited

\* C35 Shutdown drains every session: after shutdown() no heartbeat tick
\* runs, every open socket is closed with 4002, the process exits in the
\* end, and by then every connection whose close completed has been taken
\* out of its member set; only a connection whose close never completed may
\* still be a member.
C35_ShutdownDrains ==
    /\ C35_HeartbeatStopped
    /\ C35_AllSentClose
    /\ C35_ProcessExits
    /\ [](down /\ exited => ClosedHaveLeft)

---------------------------------------------------------------------------
(* Claims: monitoring *)

\* C36 Monitoring is read-only: every step of a GET /health request, basic or
\* detailed, the handlers' getRoomStats included, leaves the registry's room
\* names, every member set, the radio content history and the chat users,
\* names and message counter as they were.
C36_HealthIsReadOnly ==
    [][health' # health
       => /\ rooms' = rooms
          /\ members' = members
          /\ contentHistory' = contentHistory
          /\ chatUsers' = chatUsers
          /\ chatUsername' = chatUsername
          /\ chatCount' = chatCount]_vars

\* a detailed request has been answered with the statistics of room "radio",
\* whose history holds a post, and of room "lobby", whose getRoomStats waited
C36_Witness ==
    /\ health.stage = "done" /\ health.detailed
    /\ DOMAIN health.rooms = {"radio", "lobby"}
    /\ health.rooms["radio"].contentHistorySize = 1
    /\ contentHistory # <<>>

---------------------------------------------------------------------------
(* Claims: responsive peers *)

\* C37 A responsive connection is never killed by the heartbeat: a heartbeat
\* tick never terminates a socket whose peer has answered the latest ping it
\* was sent (or was sent none yet), whether the socket is admitted or its
\* admission is still in progress.
C37_ResponsiveNeverTerminated ==
    [][\A ws \in Conns :
          (Beat /\ closeCond'[ws] = "heartbeat" /\ closeCond[ws] # "heartbeat")
          => ~answered[ws]]_vars

---------------------------------------------------------------------------
(* Claims: the welcome *)

\* C38 Welcome comes first: the first message written to a connection that
\* was admitted to a room is its welcome; no broadcast reaches it before.
C38_WelcomeComesFirst ==
    \A c \in Conns :
       (Admitted(c) /\ inbox[c] # <<>>) => inbox[c][1].kind = "welcome"

---------------------------------------------------------------------------
(* Claims: control messages *)

\* the types of control messages, in the spellings the clients use
IsControlType(type) == type \in {"keepalive", "KeepAlive", "ack"}

\* the reply to a control message of this type
AckOf(type) == Msg("ack", NoRoom, 0, [NoData EXCEPT !.type = "ack", !.text = type])

\* the i-th pending message of c is dropped or moves on in this step
Moves(c, i) ==
    \/ inflight'[c] = RemoveAt(inflight[c], i)
    \/ /\ Len(inflight'[c]) = Len(inflight[c])
       /\ inflight'[c][i] # inflight[c][i]

\* C39 Control-type suppression: a message whose type is keepalive or ack in
\* any spelling refreshes the sender's activity time when it arrives; once
\* validated it is dropped without calling onMessage (no handler state
\* changes, no invocation waits at onMessage with such a type), the sender,
\* if still open, is written exactly one ack and nobody else anything; and no
\* broadcast ever carries such a type.
C39_ControlTypesSuppressed ==
    [][\A c \in Conns :
          /\ \A f \in Frames :
                (f.shape = "object" /\ IsControlType(f.data.type) /\ socketMessage(c, f))
                => lastActivity'[c] = now
          /\ \A i \in 1..Len(inflight[c]) :
                (/\ inflight[c][i].stage = "validateMessage"
                 /\ inflight[c][i].verr = ""
                 /\ IsControlType(inflight[c][i].payload.type)
                 /\ Moves(c, i))
                => /\ inflight'[c] = RemoveAt(inflight[c], i)
                   /\ handlerVars' = handlerVars
                   /\ inbox' = IF readyState[c] = "OPEN"
                               THEN [inbox EXCEPT
                                       ![c] = Append(@, AckOf(inflight[c][i].payload.type))]
                               ELSE inbox
          /\ \A i \in 1..Len(inflight'[c]) :
                inflight'[c][i].stage = "onMessage"
                => ~IsControlType(inflight'[c][i].payload.type)
          /\ (Received(c) /\ Newest(c).kind = "broadcast")
             => ~IsControlType(Newest(c).data.type)]_vars

\* a radio member sent a KeepAlive after the clock moved on: it holds its
\* welcome and the ack, its activity time is the present, the other member
\* of the room holds only its welcome, and the history is empty
C39_Witness ==
    /\ MembersOf("radio") = {1, 2}
    /\ Len(inbox[1]) = 2 /\ inbox[1][2] = AckOf("KeepAlive")
    /\ Len(inbox[2]) = 1 /\ inbox[2][1].kind = "welcome"
    /\ inflight[1] = <<>>
    /\ lastActivity[1] = now /\ now = MaxTime /\ lastActivity[2] < now
    /\ contentHistory = <<>>

---------------------------------------------------------------------------
(* Claims: the hard bound of the radio history *)

\* the items RadioHandler.onMessage has added so far, in the order of their
\* arrival: the messages the client has sent, less the one still to be
\* processed
AllAdded ==
    LET pending == Cardinality({i \in 1..Len(inflight[1]) :
                                   inflight[1][i].stage = "validateMessage"})
    IN  [n \in 1..(MaxAdds - frames - pending) |->
            [HistoryFrame(n).data EXCEPT !.room = "radio", !.by = "RadioHandler"]]

IsSuffix(s, t) ==
    /\ Len(s) <= Len(t)
    /\ \A k \in 1..Len(s) : s[k] = t[Len(t) - Len(s) + k]

\* C40 Radio history hard bound: after every step contentHistory has at most
\* 2 * maxHistorySize entries and is a suffix of the sequence of all items
\* added so far, and after a heartbeat tick that called the radio handler's
\* onHeartbeat it has at most maxHistorySize entries.
C40_HistoryHardBound ==
    [][/\ Len(contentHistory') <= 2 * maxHistorySize
       /\ IsSuffix(contentHistory', AllAdded')
       /\ (Beat /\ "radio" \in beatRooms')
          => Len(contentHistory') <= maxHistorySize]_vars

\* twenty-two messages without a heartbeat tick: the twenty-first made the
\* history drop to its last ten entries, and it now holds eleven, the last
\* of them the twenty-second message
C40_Witness ==
    /\ frames = 0 /\ inflight[1] = <<>> /\ beats = 0
    /\ Len(contentHistory) = maxHistorySize + 1
    /\ contentHistory[maxHistorySize + 1] = AllAdded[MaxAdds]

===========================================================================
